---- MODULE Spec2Model ----
(***************************************************************************)
(* Model of the robot-avatar server (src/server.js, the dual-model         *)
(* iteration, lines 246-1301): the /api/generate handler with its cache    *)
(* lookup, reference promotion, related-robot matching, the shared prompt  *)
(* pipeline, single-backend and "both" dispatch, and cost accounting.      *)
(*                                                                         *)
(* Strings are sequences of one-character strings, so that lower-casing,   *)
(* the regular expressions and the file-name round trip are computed.      *)
(***************************************************************************)
EXTENDS Integers, Sequences, FiniteSets, TLC

(***************************** characters *********************************)

Lowers == <<"a","b","c","d","e","f","g","h","i","j","k","l","m",
            "n","o","p","q","r","s","t","u","v","w","x","y","z">>

Uppers == <<"A","B","C","D","E","F","G","H","I","J","K","L","M",
            "N","O","P","Q","R","S","T","U","V","W","X","Y","Z">>

DigitChars == <<"0","1","2","3","4","5","6","7","8","9">>

Range(s) == { s[i] : i \in DOMAIN s }

IsDigit(c) == c \in Range(DigitChars)

\* [a-z0-9] under the /i flag: letters of either case and digits
IsAlnum(c) == c \in Range(Lowers) \cup Range(Uppers) \cup Range(DigitChars)

\* U+212A KELVIN SIGN: a character outside [a-z0-9] (also under the /i
\* flag) whose lower case is the letter k
KelvinSign == "U+212A"

ToLowerChar(c) ==
    IF c \in Range(Uppers)
    THEN Lowers[CHOOSE i \in DOMAIN Uppers : Uppers[i] = c]
    ELSE IF c = KelvinSign THEN "k" ELSE c

\* String.prototype.toLowerCase
toLowerCase(s) == [i \in DOMAIN s |-> ToLowerChar(s[i])]

\* s.replace(/[^a-z0-9]/gi, '_')
ReplaceNonAlnum(s) == [i \in DOMAIN s |-> IF IsAlnum(s[i]) THEN s[i] ELSE "_"]

\* faulty variant: the g flag is missing, only the first character that is
\* not a letter or a digit is removed
StripFirstNonAlnum(s) ==
    LET others == { i \in DOMAIN s : ~IsAlnum(s[i]) }
        first == CHOOSE i \in others : \A j \in others : i <= j
    IN  IF others = {}
        THEN s
        ELSE SubSeq(s, 1, first - 1) \o SubSeq(s, first + 1, Len(s))

\* s.replace(/[^a-z0-9]/gi, '')
StripNonAlnum(s) == SelectSeq(s, IsAlnum)

\* String.prototype.endsWith
EndsWith(s, suffix) ==
    /\ Len(suffix) <= Len(s)
    /\ SubSeq(s, Len(s) - Len(suffix) + 1, Len(s)) = suffix

DropLast(s, n) == SubSeq(s, 1, Len(s) - n)

(************************** file names and paths ***************************)

\* the number of digits of a millisecond timestamp, /_\d{13}$/
TimestampDigits == 13

Positions(s, c) == { i \in DOMAIN s : s[i] = c }

Max(S) == CHOOSE x \in S : \A y \in S : y <= x

\* path.extname: from the last "." to the end; none when the name has no
\* "." or only a leading one
extname(file) ==
    LET dots == Positions(file, ".")
    IN  IF dots = {} \/ Max(dots) = 1
        THEN << >>
        ELSE SubSeq(file, Max(dots), Len(file))

\* path.basename(file, ext)
basename(file, ext) ==
    IF ext # << >> /\ ext # file /\ EndsWith(file, ext)
    THEN DropLast(file, Len(ext))
    ELSE file

\* path.basename(file, path.extname(file))
BaseNoExt(file) == basename(file, extname(file))

\* faulty variant: the suffix pattern counts one digit too few, /_\d{12}$/
StripTimestampShort(s) ==
    LET n == Len(s)
    IN  IF /\ n >= TimestampDigits
           /\ s[n - TimestampDigits + 1] = "_"
           /\ \A i \in (n - TimestampDigits + 2)..n : IsDigit(s[i])
        THEN DropLast(s, TimestampDigits)
        ELSE s

\* s.replace(/_\d{13}$/, '')
StripTimestamp(s) ==
    LET n == Len(s)
    IN  IF /\ n >= TimestampDigits + 1
           /\ s[n - TimestampDigits] = "_"
           /\ \A i \in (n - TimestampDigits + 1)..n : IsDigit(s[i])
        THEN DropLast(s, TimestampDigits + 1)
        ELSE s

\* prompt.toLowerCase().replace(/[^a-z0-9]/gi, '_')
normalizedPrompt(prompt) == ReplaceNonAlnum(toLowerCase(prompt))

\* prompt.toLowerCase().replace(/\s+/g, '').replace(/[^a-z0-9]/gi, '')
searchTerm(prompt) == StripNonAlnum(toLowerCase(prompt))

\* name.toLowerCase().replace(/[^a-z0-9]/gi, '')
CleanName(name) == StripNonAlnum(toLowerCase(name))

\* The decimal digits of Date.now(): milliseconds since 1970, thirteen digits
\* from 2001 to 2286.  The clock of the model counts the milliseconds elapsed
\* since the instant whose digits are EpochPrefix followed by 00.
EpochPrefix == <<"1","7","0","0","0","0","0","0","0","0","0">>

DateNowString(t) ==
    EpochPrefix \o << DigitChars[((t \div 10) % 10) + 1], DigitChars[(t % 10) + 1] >>

PngExt == <<".","p","n","g">>

JpgExt == <<".","j","p","g">>

JpegExt == <<".","j","p","e","g">>

OpenaiTag == <<"_","o","p","e","n","a","i">>

GoogleTag == <<"_","g","o","o","g","l","e">>

\* `${normalizedPrompt}_${Date.now()}.png`
TimestampedName(stem, t) == stem \o <<"_">> \o DateNowString(t) \o PngExt

(*************************** the three collections *************************)

GeneratedDir == "Generated"

ReferenceDir == "Reference Images"

SecondaryReferenceDir == "Secondary Reference Images"

\* The files of "Reference Images" and "Secondary Reference Images": the
\* server only reads them.
ReferenceFiles == { <<"G","o",".","p","n","g">> }

SecondaryReferenceFiles == { <<"z","i","g",".","j","p","g">>,
                             <<"G","O",".","p","n","g">> }

\* the bytes of a reference file
RefBytes(dir, file) == [dir |-> dir, file |-> file]

\* file.endsWith('.png') || file.endsWith('.jpg') || file.endsWith('.jpeg')
ImageFile(file) ==
    EndsWith(file, PngExt) \/ EndsWith(file, JpgExt) \/ EndsWith(file, JpegExt)

\* /\.(png|jpg|jpeg)$/i.test(file)
ImageFileI(file) == ImageFile(toLowerCase(file))

(****************************** cache lookup *******************************)

\* The logical name the cache lookup derives from a file of Generated/.
LookupName(file) == StripTimestamp(toLowerCase(BaseNoExt(file)))

\* faulty variant: the file name is compared with its timestamp still on
existingGeneratedUnstripped(files, prompt) ==
    { f \in files : toLowerCase(BaseNoExt(f)) = normalizedPrompt(prompt) }

\* faulty variant: the model suffix is removed before the comparison
existingGeneratedAnyTag(files, prompt) ==
    { f \in files :
        LookupName(f) \in { normalizedPrompt(prompt),
                            normalizedPrompt(prompt) \o OpenaiTag,
                            normalizedPrompt(prompt) \o GoogleTag } }

\* generatedFiles.find(...) of the single-backend lookup: the files that
\* satisfy the predicate (find returns the first in readdir order)
existingGenerated(files, prompt) ==
    { f \in files : LookupName(f) = normalizedPrompt(prompt) }

\* faulty variant: any model suffix is taken for the backend's own
taggedCachedAnyTag(files, prompt, tag) ==
    LET stem == normalizedPrompt(prompt) \o <<"_">>
    IN  { f \in files :
            /\ Len(LookupName(f)) > Len(stem)
            /\ SubSeq(LookupName(f), 1, Len(stem)) = stem }

\* openaiCached / googleCached of the "both" branch
taggedCached(files, prompt, tag) ==
    { f \in files : LookupName(f) = normalizedPrompt(prompt) \o tag }

\* faulty variant: the file name is not lower-cased before the comparison
existingReferenceCaseSensitive(files, prompt) ==
    { f \in files : StripNonAlnum(BaseNoExt(f)) = searchTerm(prompt) }

\* referenceFiles.find(...) and secondaryReferenceFiles.find(...)
existingReference(files, prompt) ==
    { f \in files :
        toLowerCase(StripNonAlnum(toLowerCase(BaseNoExt(f)))) = searchTerm(prompt) }

(******************************** matcher **********************************)

\* the separators of prompt.toLowerCase().split(/[\s\-_,&+]/)
Separators == { " ", "-", "_", ",", "&", "+" }

RECURSIVE SplitFrom(_, _, _)
SplitFrom(s, i, word) ==
    IF i > Len(s)
    THEN << word >>
    ELSE IF s[i] \in Separators
         THEN << word >> \o SplitFrom(s, i + 1, << >>)
         ELSE SplitFrom(s, i + 1, Append(word, s[i]))

promptWords(prompt) == SplitFrom(toLowerCase(prompt), 1, << >>)

\* faulty variant: the timestamp stays in the name of a generated robot
GeneratedRobotsUnstripped(files) ==
    { [name |-> BaseNoExt(f), path |-> <<GeneratedDir, f>>,
       source |-> "generated"] : f \in { g \in files : ImageFile(g) } }

\* allExistingRobots, by collection: generated first, then the reference
\* set, then the secondary reference set
GeneratedRobots(files) ==
    { [name |-> StripTimestamp(BaseNoExt(f)), path |-> <<GeneratedDir, f>>,
       source |-> "generated"] : f \in { g \in files : ImageFile(g) } }

ReferenceRobots(files, dir, source) ==
    { [name |-> BaseNoExt(f), path |-> <<dir, f>>, source |-> source] :
        f \in { g \in files : ImageFile(g) } }

\* The robots a loop over allExistingRobots can meet first with the clean
\* name `clean`: those of the first collection that holds one (the order
\* inside a collection is readdir's).
FirstMatches(groups, clean) ==
    LET m(i) == { rb \in groups[i] : CleanName(rb.name) = clean }
    IN  IF m(1) # {} THEN m(1) ELSE IF m(2) # {} THEN m(2) ELSE m(3)

\* faulty variant: the length test of a word is `< 3` in place of `< 2`
RECURSIVE WordTierLongWords(_, _, _, _)
WordTierLongWords(groups, words, foundBaseRobots, relatedRobots) ==
    IF words = << >>
    THEN { relatedRobots }
    ELSE LET wordClean == toLowerCase(StripNonAlnum(Head(words)))
             ms == FirstMatches(groups, wordClean)
         IN  IF Len(wordClean) < 3 \/ ms = {} \/ wordClean \in foundBaseRobots
             THEN WordTierLongWords(groups, Tail(words), foundBaseRobots,
                                    relatedRobots)
             ELSE UNION { WordTierLongWords(groups, Tail(words),
                                            foundBaseRobots \cup {wordClean},
                                            Append(relatedRobots, rb)) : rb \in ms }

\* faulty variant: foundBaseRobots is not consulted, a repeated word adds its
\* robot again
RECURSIVE WordTierRepeats(_, _, _, _)
WordTierRepeats(groups, words, foundBaseRobots, relatedRobots) ==
    IF words = << >>
    THEN { relatedRobots }
    ELSE LET wordClean == toLowerCase(StripNonAlnum(Head(words)))
             ms == FirstMatches(groups, wordClean)
         IN  IF Len(wordClean) < 2 \/ ms = {}
             THEN WordTierRepeats(groups, Tail(words), foundBaseRobots,
                                  relatedRobots)
             ELSE UNION { WordTierRepeats(groups, Tail(words),
                                          foundBaseRobots \cup {wordClean},
                                          Append(relatedRobots, rb)) : rb \in ms }

\* the word tier of findRelatedRobots
RECURSIVE WordTier(_, _, _, _)
WordTier(groups, words, foundBaseRobots, relatedRobots) ==
    IF words = << >>
    THEN { relatedRobots }
    ELSE LET wordClean == toLowerCase(StripNonAlnum(Head(words)))
             ms == FirstMatches(groups, wordClean)
         IN  IF Len(wordClean) < 2 \/ ms = {} \/ wordClean \in foundBaseRobots
             THEN WordTier(groups, Tail(words), foundBaseRobots, relatedRobots)
             ELSE UNION { WordTier(groups, Tail(words),
                                   foundBaseRobots \cup {wordClean},
                                   Append(relatedRobots, rb)) : rb \in ms }

\* faulty variant: foundSpecificMatch is not set, so the word tier runs after
\* an exact match and adds to it
findRelatedRobotsMixedTiers(prompt, gen, ref, sec, genOk, refOk) ==
    IF ~genOk \/ ~refOk
    THEN { << >> }
    ELSE LET groups == << GeneratedRobots(gen),
                          ReferenceRobots(ref, ReferenceDir, "reference"),
                          ReferenceRobots(sec, SecondaryReferenceDir,
                                          "secondary_reference") >>
             exact == FirstMatches(groups, searchTerm(prompt))
         IN  IF exact # {}
             THEN UNION { WordTier(groups, promptWords(prompt), {}, << rb >>) :
                            rb \in exact }
             ELSE WordTier(groups, promptWords(prompt), {}, << >>)

\* findRelatedRobots(prompt): the lists it can return.  gen, ref and sec are
\* the three directory listings; genOk and refOk tell whether the first two
\* readdir calls succeed (a failure is caught by the outer try and leaves the
\* list empty); an unreadable secondary directory is listed as empty.
findRelatedRobots(prompt, gen, ref, sec, genOk, refOk) ==
    IF ~genOk \/ ~refOk
    THEN { << >> }
    ELSE LET groups == << GeneratedRobots(gen),
                          ReferenceRobots(ref, ReferenceDir, "reference"),
                          ReferenceRobots(sec, SecondaryReferenceDir,
                                          "secondary_reference") >>
             exact == FirstMatches(groups, searchTerm(prompt))
         IN  IF exact # {}
             THEN { << rb >> : rb \in exact }
             ELSE WordTier(groups, promptWords(prompt), {}, << >>)

(*************************** reference selection ***************************)

\* the limit of loadReferenceImages
ReferenceLimit == 10

Min(a, b) == IF a < b THEN a ELSE b

\* the sequences without repetition of length n over S
RECURSIVE Arrangements(_, _)
Arrangements(S, n) ==
    IF n = 0
    THEN { << >> }
    ELSE UNION { { <<x>> \o t : t \in Arrangements(S \ {x}, n - 1) } : x \in S }

\* loadReferenceImages(limit): a shuffle of the image files of the reference
\* directory cut to the limit; empty when the directory is unreadable
loadReferenceImages(limit, ref, refOk) ==
    IF ~refOk
    THEN { << >> }
    ELSE LET imageFiles == { f \in ref : ImageFileI(f) }
             selected == Arrangements(imageFiles, Min(limit, Cardinality(imageFiles)))
         IN  { [i \in DOMAIN s |-> <<ReferenceDir, s[i]>>] : s \in selected }

\* faulty variant: the related robots' paths are filled up to the limit with
\* randomly chosen reference images
ReferencesFromPadded(related, ref, refOk) ==
    IF Len(related) > 0
    THEN { [i \in DOMAIN related |-> related[i].path] \o extra :
             extra \in loadReferenceImages(ReferenceLimit - Len(related),
                                           ref, refOk) }
    ELSE loadReferenceImages(ReferenceLimit, ref, refOk)

\* server.js 924-931, 1125-1132: referenceImages for the match result
\* `related` when Reference Images/ holds `ref` and lists or not
ReferencesFrom(related, ref, refOk) ==
    IF Len(related) > 0
    THEN { [i \in DOMAIN related |-> related[i].path] }
    ELSE loadReferenceImages(ReferenceLimit, ref, refOk)

(***************************** cost accounting *****************************)
\* Amounts are in millionths of a dollar; the rates are dollars per million
\* tokens, so tokens * rate is already in millionths.

GoogleImageTokens == 1290

GoogleOutputRate == 30

OpenaiImageTokens == 4160

OpenaiInputRate == 10

OpenaiOutputRate == 40

OpenaiEstimatedPromptTokens == 500

\* generateWithGoogle: (imageTokens / 1000000) * 30.00
googleEstimatedCost == GoogleImageTokens * GoogleOutputRate

\* faulty variant: with response.usage only the reported tokens are charged
openaiTokenCost(usage) ==
    IF usage.reported
    THEN usage.prompt_tokens * OpenaiInputRate
         + usage.completion_tokens * OpenaiOutputRate
    ELSE OpenaiEstimatedPromptTokens * OpenaiInputRate
         + OpenaiImageTokens * OpenaiOutputRate

\* generateWithOpenAI: the cost with response.usage, and the estimate without
openaiEstimatedCost(usage) ==
    IF usage.reported
    THEN usage.prompt_tokens * OpenaiInputRate
         + usage.completion_tokens * OpenaiOutputRate
         + OpenaiImageTokens * OpenaiOutputRate
    ELSE OpenaiEstimatedPromptTokens * OpenaiInputRate
         + OpenaiImageTokens * OpenaiOutputRate

\* `$${cost.toFixed(4)}`: the amount in ten-thousandths of a dollar
toFixed4(micro) == (micro + 50) \div 100

(********************************* state ***********************************)

\* the requests in flight at once (two handlers of app.post('/api/generate'))
Requests == { "r1", "r2" }

Backends == { "openai", "google" }

Models == { "openai", "google", "both" }

EmptyPrompt == << >>

\* the concepts asked for: one matching the reference set (and the secondary
\* set), one matching the secondary set only, one matching nothing
Prompts == { EmptyPrompt, <<"G","o">>, <<"Z","i","g">>, <<"N","i","m">> }

\* the clock values Date.now() can return
MaxClock == 1

\* response.usage of the OpenAI Responses API: absent, or present (it carries
\* input_tokens/output_tokens, so prompt_tokens and completion_tokens read 0)
UsageReports ==
    { [reported |-> FALSE, prompt_tokens |-> 0, completion_tokens |-> 0],
      [reported |-> TRUE, prompt_tokens |-> 0, completion_tokens |-> 0] }

VARIABLES
    generated,       \* Generated/: file name -> bytes
    now,             \* the clock, in milliseconds
    pc,              \* where each request's handler stands
    req,             \* req.body of each request
    hit,             \* what the single-backend lookup of each request found
    promo,           \* sourceFile and filename of a promotion under way
    relatedRobots,   \* relatedRobots of each request
    referenceImages, \* referenceImages of each request
    branch,          \* per request and backend: the generateWith... call
    response,        \* the response sent for each request
    calls,           \* history: backend calls made, per request and backend
    created,         \* history: the files each request wrote
    fault,           \* history: the fatal failures each request met
    doneBefore,      \* history: the requests answered before this one came
    matchRun,        \* one call of findRelatedRobots on a given library
    promptRun,       \* one call of generateWith... followed step by step
    normRun,         \* one concept text and its normalized forms
    composeRun,      \* two compositions of the generation prompt
    nameRun,         \* one saved file name and what is read back from it
    galleryRun,      \* the files saved so far and one gallery listing
    styleRun,        \* one call of analyzeReferenceStyle
    timingRun        \* one generating request and the times it reports

\* the variables of the handler
handlerVars == << generated, now, pc, req, hit, promo, relatedRobots,
                  referenceImages, branch, response, calls, created, fault,
                  doneBefore >>

\* the variables of the functions examined on their own
functionVars == << matchRun, promptRun, normRun, composeRun, nameRun,
                  galleryRun, styleRun, timingRun >>

vars == << handlerVars, functionVars >>

\* no function is being examined on its own
NoRun == [stage |-> "none"]

NoReq == [prompt |-> EmptyPrompt, model |-> "openai", extensiveThinking |-> TRUE]

NoPromo == [source |-> "none", dir |-> "none", file |-> << >>, filename |-> << >>]

NoResponse == [status |-> 0]

ErrorEntry == [success |-> FALSE]

NoBranch == [pc |-> "off", result |-> ErrorEntry]

NoCalls == [analysis |-> 0, research |-> 0, generation |-> 0]

HandlerInit ==
    /\ generated = << >>
    /\ now = 0
    /\ pc = [r \in Requests |-> "idle"]
    /\ req = [r \in Requests |-> NoReq]
    /\ hit = [r \in Requests |-> "none"]
    /\ promo = [r \in Requests |-> NoPromo]
    /\ relatedRobots = [r \in Requests |-> << >>]
    /\ referenceImages = [r \in Requests |-> << >>]
    /\ branch = [r \in Requests |-> [b \in Backends |-> NoBranch]]
    /\ response = [r \in Requests |-> NoResponse]
    /\ calls = [r \in Requests |-> [b \in Backends |-> NoCalls]]
    /\ created = [r \in Requests |-> {}]
    /\ fault = [r \in Requests |-> {}]
    /\ doneBefore = [r \in Requests |-> {}]

\* the functions added later are not being examined
OthersIdle ==
    /\ composeRun = NoRun /\ nameRun = NoRun /\ galleryRun = NoRun
    /\ styleRun = NoRun /\ timingRun = NoRun

Init ==
    /\ HandlerInit
    /\ matchRun = NoRun
    /\ promptRun = NoRun
    /\ normRun = NoRun
    /\ OthersIdle

(******************************** helpers **********************************)

\* the values one call of Date.now() can return: the clock does not go back,
\* and the same millisecond can be read twice
DateNow == { t \in { now, now + 1 } : t <= MaxClock }

\* fs.writeFile(path, bytes): creates the file, or replaces its bytes
writeFile(files, name, bytes) ==
    [f \in DOMAIN files \cup {name} |-> IF f = name THEN bytes ELSE files[f]]

\* the bytes a backend returns for one generation call
ImageBytes(r, b) == [dir |-> b, file |-> << r >>]

\* the model tag of a file name written by the "both" branch
Tag(b) == IF b = "openai" THEN OpenaiTag ELSE GoogleTag

\* the backend a single-backend request dispatches to (server.js 1140-1144)
DispatchTo(model) == IF model = "google" THEN "google" ELSE "openai"

\* the catch of the handler: res.status(500)
ErrorResponse == [status |-> 500]

\* the response of a generated-set hit
CachedResponse(file) ==
    [status |-> 200, success |-> TRUE, filename |-> file, cached |-> TRUE,
     estimated_cost |-> 0, cost |-> 0]

\* the response of a promotion
PromotedResponse(file, source) ==
    [status |-> 200, success |-> TRUE, filename |-> file, cached |-> TRUE,
     source |-> source, estimated_cost |-> 0, cost |-> 0]

\* the response of a fresh single-backend generation
FreshResponse(result) ==
    [status |-> 200, success |-> TRUE, filename |-> result.filename,
     research |-> result.research, estimated_cost |-> result.estimated_cost,
     cost |-> result.cost]

\* results.openai / results.google of the "both" branch
CachedEntry(file) ==
    [success |-> TRUE, filename |-> file, cached |-> TRUE, cost |-> 0]

FreshEntry(result) ==
    [success |-> TRUE, filename |-> result.filename, cost |-> result.cost,
     estimated_cost |-> result.estimated_cost]

\* faulty variant: Promise.race in place of Promise.all
AnySettled(bs) == \E b \in Backends : bs[b].pc \in { "cached", "settled" }

\* await Promise.all(promises): every promise pushed has settled
AllSettled(bs) == \A b \in Backends : bs[b].pc \in { "cached", "settled" }

\* res.json of the "both" branch
CombinedResponse(bs) ==
    [status |-> 200, success |-> TRUE,
     results |-> [b \in Backends |-> bs[b].result]]

\* a generateWith... call that has been made and has not returned
StartBranch == [pc |-> "generate", result |-> ErrorEntry]

\* generateWith...(prompt, referenceImages, relatedRobots, extensiveThinking)
\* has been called with these related robots and reference images
StartCall(related, refs) ==
    [pc |-> StartBranch.pc, result |-> StartBranch.result,
     relatedRobots |-> related, referenceImages |-> refs]

\* res.json(...) or res.status(...).json(...): the handler is over
Respond(r, resp) ==
    /\ pc' = [pc EXCEPT ![r] = "done"]
    /\ response' = [response EXCEPT ![r] = resp]
    /\ promo' = [promo EXCEPT ![r] = NoPromo]
    /\ relatedRobots' = [relatedRobots EXCEPT ![r] = << >>]
    /\ referenceImages' = [referenceImages EXCEPT ![r] = << >>]

Goto(r, label) ==
    /\ pc' = [pc EXCEPT ![r] = label]
    /\ UNCHANGED response

\* fs.readdir failed outside any inner try: the handler's catch answers 500
ReaddirFailed(r) ==
    /\ Respond(r, ErrorResponse)
    /\ fault' = [fault EXCEPT ![r] = @ \cup { "readdir" }]

(******************** app.post('/api/generate'): the lookup ****************)

\* faulty variant: the check of the prompt is missing, an empty prompt goes
\* on to the lookup
ReceiveUnvalidated(r, p, m, e) ==
    /\ pc[r] = "idle"
    /\ r = "r2" => (pc["r1"] # "idle" /\ p = req["r1"].prompt)
    /\ p = EmptyPrompt => (m = "openai" /\ e)
    /\ req' = [req EXCEPT ![r] =
                 [prompt |-> p, model |-> m, extensiveThinking |-> e]]
    /\ doneBefore' = [doneBefore EXCEPT ![r] = { q \in Requests : pc[q] = "done" }]
    /\ Goto(r, IF m = "both" THEN "fanCheck" ELSE "checkGenerated")
    /\ UNCHANGED << generated, now, hit, promo, relatedRobots,
                    referenceImages, branch, calls, created, fault >>
    /\ UNCHANGED functionVars

\* server.js 882-893: the request arrives; a missing prompt is refused.
\* The second request comes after the first and asks for the same concept
\* (requests for different one-word concepts share no file name and no
\* match); with no prompt, the model and the mode are not read.
Receive(r, p, m, e) ==
    /\ pc[r] = "idle"
    /\ r = "r2" => (pc["r1"] # "idle" /\ p = req["r1"].prompt)
    /\ p = EmptyPrompt => (m = "openai" /\ e)
    /\ req' = [req EXCEPT ![r] =
                 [prompt |-> p, model |-> m, extensiveThinking |-> e]]
    /\ doneBefore' = [doneBefore EXCEPT ![r] = { q \in Requests : pc[q] = "done" }]
    /\ IF p = EmptyPrompt
       THEN /\ pc' = [pc EXCEPT ![r] = "done"]
            /\ response' = [response EXCEPT ![r] = [status |-> 400]]
       ELSE Goto(r, IF m = "both" THEN "fanCheck" ELSE "checkGenerated")
    /\ UNCHANGED << generated, now, hit, promo, relatedRobots,
                    referenceImages, branch, calls, created, fault >>
    /\ UNCHANGED functionVars

\* faulty variant: a generated-set hit is served from a fresh copy of the
\* file, as a promotion is
CheckGeneratedCopies(r) ==
    /\ pc[r] = "checkGenerated"
    /\ \E ok \in BOOLEAN :
          IF ~ok
          THEN ReaddirFailed(r) /\ UNCHANGED << hit, generated, now >>
          ELSE LET ms == existingGenerated(DOMAIN generated, req[r].prompt)
               IN  IF ms # {}
                   THEN /\ \E f \in ms, t \in DateNow :
                             LET copy == TimestampedName(
                                           normalizedPrompt(req[r].prompt), t)
                             IN  /\ Respond(r, CachedResponse(copy))
                                 /\ generated' =
                                      writeFile(generated, copy, generated[f])
                                 /\ now' = t
                        /\ hit' = [hit EXCEPT ![r] = "generated"]
                        /\ UNCHANGED fault
                   ELSE /\ Goto(r, "checkReference")
                        /\ UNCHANGED << hit, promo, relatedRobots,
                                        referenceImages, fault, generated, now >>
    /\ UNCHANGED << req, branch, calls, created, doneBefore >>
    /\ UNCHANGED functionVars

\* faulty variant: the lookup waits until no other request is being handled
CheckGeneratedLocked(r) ==
    /\ pc[r] = "checkGenerated"
    /\ \A q \in Requests \ { r } : pc[q] \in { "idle", "done" }
    /\ \E ok \in BOOLEAN :
          IF ~ok
          THEN ReaddirFailed(r) /\ UNCHANGED hit
          ELSE LET ms == existingGenerated(DOMAIN generated, req[r].prompt)
               IN  IF ms # {}
                   THEN /\ \E f \in ms : Respond(r, CachedResponse(f))
                        /\ hit' = [hit EXCEPT ![r] = "generated"]
                        /\ UNCHANGED fault
                   ELSE /\ Goto(r, "checkReference")
                        /\ UNCHANGED << hit, promo, relatedRobots,
                                        referenceImages, fault >>
    /\ UNCHANGED << generated, now, req, branch, calls, created, doneBefore >>
    /\ UNCHANGED functionVars

\* server.js 1015-1040: readdir of Generated/ and the generated-set lookup
CheckGenerated(r) ==
    /\ pc[r] = "checkGenerated"
    /\ \E ok \in BOOLEAN :
          IF ~ok
          THEN ReaddirFailed(r) /\ UNCHANGED hit
          ELSE LET ms == existingGenerated(DOMAIN generated, req[r].prompt)
               IN  IF ms # {}
                   THEN /\ \E f \in ms : Respond(r, CachedResponse(f))
                        /\ hit' = [hit EXCEPT ![r] = "generated"]
                        /\ UNCHANGED fault
                   ELSE /\ Goto(r, "checkReference")
                        /\ UNCHANGED << hit, promo, relatedRobots,
                                        referenceImages, fault >>
    /\ UNCHANGED << generated, now, req, branch, calls, created, doneBefore >>
    /\ UNCHANGED functionVars

\* faulty variant: the reference set is not consulted, the lookup goes from
\* the generated set to the secondary reference set
CheckReferenceSkipped(r) ==
    /\ pc[r] = "checkReference"
    /\ Goto(r, "checkSecondary")
    /\ UNCHANGED << hit, now, promo, relatedRobots, referenceImages, fault >>
    /\ UNCHANGED << generated, req, branch, calls, created, doneBefore >>
    /\ UNCHANGED functionVars

\* server.js 1042-1057: readdir of the reference set and its lookup; on a hit
\* the destination name is made from Date.now()
CheckReference(r) ==
    /\ pc[r] = "checkReference"
    /\ \E ok \in BOOLEAN :
          IF ~ok
          THEN ReaddirFailed(r) /\ UNCHANGED << hit, now >>
          ELSE LET ms == existingReference(ReferenceFiles, req[r].prompt)
               IN  IF ms # {}
                   THEN \E f \in ms, t \in DateNow :
                           /\ promo' = [promo EXCEPT ![r] =
                                [source |-> "reference", dir |-> ReferenceDir,
                                 file |-> f,
                                 filename |-> TimestampedName(
                                     normalizedPrompt(req[r].prompt), t)]]
                           /\ now' = t
                           /\ hit' = [hit EXCEPT ![r] = "reference"]
                           /\ Goto(r, "promote")
                           /\ UNCHANGED << relatedRobots, referenceImages, fault >>
                   ELSE /\ Goto(r, "checkSecondary")
                        /\ UNCHANGED << hit, now, promo, relatedRobots,
                                        referenceImages, fault >>
    /\ UNCHANGED << generated, req, branch, calls, created, doneBefore >>
    /\ UNCHANGED functionVars

\* server.js 1074-1090, 1106-1108: the same for the secondary reference set,
\* inside a try whose catch goes on to the generation (an unreadable
\* directory included)
CheckSecondary(r) ==
    /\ pc[r] = "checkSecondary"
    /\ \E ok \in BOOLEAN :
          LET ms == IF ok
                    THEN existingReference(SecondaryReferenceFiles, req[r].prompt)
                    ELSE {}
          IN  IF ms # {}
              THEN \E f \in ms, t \in DateNow :
                      /\ promo' = [promo EXCEPT ![r] =
                           [source |-> "secondary_reference",
                            dir |-> SecondaryReferenceDir, file |-> f,
                            filename |-> TimestampedName(
                                normalizedPrompt(req[r].prompt), t)]]
                      /\ now' = t
                      /\ hit' = [hit EXCEPT ![r] = "secondary_reference"]
                      /\ Goto(r, "promote")
              ELSE /\ Goto(r, "findRelated")
                   /\ hit' = [hit EXCEPT ![r] = "miss"]
                   /\ UNCHANGED << now, promo >>
    /\ UNCHANGED << generated, req, relatedRobots, referenceImages,
                    branch, calls, created, fault, doneBefore >>
    /\ UNCHANGED functionVars

\* faulty variant: the reference file is answered without being copied
\* into Generated/
PromoteWithoutCopy(r) ==
    /\ pc[r] = "promote"
    /\ \E ok \in BOOLEAN :
          IF ok
          THEN /\ Respond(r, PromotedResponse(promo[r].filename, promo[r].source))
               /\ UNCHANGED fault
          ELSE /\ fault' = [fault EXCEPT ![r] = @ \cup { "promote" }]
               /\ IF promo[r].source = "reference"
                  THEN Respond(r, ErrorResponse)
                  ELSE /\ Goto(r, "findRelated")
                       /\ promo' = [promo EXCEPT ![r] = NoPromo]
                       /\ UNCHANGED << relatedRobots, referenceImages >>
    /\ UNCHANGED << generated, created >>
    /\ UNCHANGED << now, req, hit, branch, calls, doneBefore >>
    /\ UNCHANGED functionVars

\* server.js 1059-1071, 1092-1104: await fs.readFile(sourceFile), await
\* fs.writeFile(destFile, imageBuffer) and the cached response.  When either
\* fails, the handler's catch answers 500 for the reference set (1175-1181);
\* for the secondary set the inner catch (1106-1108) swallows the error and
\* the handler goes on to generate.
Promote(r) ==
    /\ pc[r] = "promote"
    /\ \E ok \in BOOLEAN :
          IF ok
          THEN /\ generated' = writeFile(generated, promo[r].filename,
                                         RefBytes(promo[r].dir, promo[r].file))
               /\ created' = [created EXCEPT ![r] = @ \cup { promo[r].filename }]
               /\ Respond(r, PromotedResponse(promo[r].filename, promo[r].source))
               /\ UNCHANGED fault
          ELSE /\ fault' = [fault EXCEPT ![r] = @ \cup { "promote" }]
               /\ IF promo[r].source = "reference"
                  THEN Respond(r, ErrorResponse)
                  ELSE /\ Goto(r, "findRelated")
                       /\ promo' = [promo EXCEPT ![r] = NoPromo]
                       /\ UNCHANGED << relatedRobots, referenceImages >>
               /\ UNCHANGED << generated, created >>
    /\ UNCHANGED << now, req, hit, branch, calls, doneBefore >>
    /\ UNCHANGED functionVars

(************** matching, reference selection and dispatch *****************)

\* the lists findRelatedRobots(prompt) can return in the current state (its
\* three listings succeed)
RelatedNow(prompt) ==
    findRelatedRobots(prompt, DOMAIN generated, ReferenceFiles,
                      SecondaryReferenceFiles, TRUE, TRUE)

\* server.js 924-931, 1125-1132: the related robots' paths, or a random
\* sample of the reference set when nothing is related
ReferencesFor(related) == ReferencesFrom(related, ReferenceFiles, TRUE)

\* server.js 1110-1144: no existing robot was found; related robots and
\* references are gathered and the selected backend's generateWith... called
FindRelated(r) ==
    /\ pc[r] = "findRelated"
    /\ \E rel \in RelatedNow(req[r].prompt) :
       \E refs \in ReferencesFor(rel) :
          /\ relatedRobots' = [relatedRobots EXCEPT ![r] = rel]
          /\ referenceImages' = [referenceImages EXCEPT ![r] = refs]
          /\ branch' = [branch EXCEPT ![r][DispatchTo(req[r].model)] =
                          StartCall(rel, refs)]
    /\ Goto(r, "generating")
    /\ UNCHANGED << generated, now, req, hit, promo, calls, created, fault,
                    doneBefore >>
    /\ UNCHANGED functionVars

\* server.js 893-916: the "both" branch reads Generated/ and looks for a
\* tagged file of each backend
FanCheck(r) ==
    /\ pc[r] = "fanCheck"
    /\ \E ok \in BOOLEAN :
          IF ~ok
          THEN ReaddirFailed(r) /\ UNCHANGED branch
          ELSE /\ \E choice \in [Backends -> DOMAIN generated \cup { << >> }] :
                    /\ \A b \in Backends :
                         LET ms == taggedCached(DOMAIN generated,
                                                req[r].prompt, Tag(b))
                         IN  IF ms = {} THEN choice[b] = << >>
                                        ELSE choice[b] \in ms
                    /\ branch' = [branch EXCEPT ![r] =
                         [b \in Backends |->
                            IF choice[b] = << >>
                            THEN NoBranch
                            ELSE [pc |-> "cached",
                                  result |-> CachedEntry(choice[b])]]]
               /\ Goto(r, "fanShared")
               /\ UNCHANGED << promo, relatedRobots, referenceImages, fault >>
    /\ UNCHANGED << generated, now, req, hit, calls, created, doneBefore >>
    /\ UNCHANGED functionVars

\* faulty variant: the references are gathered per backend, and the Google
\* call gets a random sample whatever was matched
FanSharedPerBackend(r) ==
    /\ pc[r] = "fanShared"
    /\ IF AllSettled(branch[r])
       THEN /\ Respond(r, CombinedResponse(branch[r]))
            /\ UNCHANGED branch
       ELSE /\ \E rel \in RelatedNow(req[r].prompt) :
               \E refs \in ReferencesFor(rel) :
               \E sample \in ReferencesFor(<< >>) :
                  /\ relatedRobots' = [relatedRobots EXCEPT ![r] = rel]
                  /\ referenceImages' = [referenceImages EXCEPT ![r] = refs]
                  /\ branch' = [branch EXCEPT ![r] =
                       [b \in Backends |->
                          IF branch[r][b].pc = "cached"
                          THEN branch[r][b]
                          ELSE IF b = "google"
                               THEN StartCall(rel, sample)
                               ELSE StartCall(rel, refs)]]
            /\ Goto(r, "fanWait")
            /\ UNCHANGED promo
    /\ UNCHANGED << generated, now, req, hit, calls, created, fault,
                    doneBefore >>
    /\ UNCHANGED functionVars

\* server.js 918-1013: the shared related robots and references, then for
\* each backend the cached entry or the call of generateWith...; the handler
\* awaits Promise.all of the calls made (none when both are cached)
FanShared(r) ==
    /\ pc[r] = "fanShared"
    /\ IF AllSettled(branch[r])
       THEN /\ Respond(r, CombinedResponse(branch[r]))
            /\ UNCHANGED branch
       ELSE /\ \E rel \in RelatedNow(req[r].prompt) :
               \E refs \in ReferencesFor(rel) :
                  /\ relatedRobots' = [relatedRobots EXCEPT ![r] = rel]
                  /\ referenceImages' = [referenceImages EXCEPT ![r] = refs]
                  /\ branch' = [branch EXCEPT ![r] =
                       [b \in Backends |->
                          IF branch[r][b].pc = "cached"
                          THEN branch[r][b]
                          ELSE StartCall(rel, refs)]]
            /\ Goto(r, "fanWait")
            /\ UNCHANGED promo
    /\ UNCHANGED << generated, now, req, hit, calls, created, fault,
                    doneBefore >>
    /\ UNCHANGED functionVars

(********************* generateWithOpenAI / generateWithGoogle *************)

\* the number of reference images analyzeReferenceStyle sends
AnalysisImageCap == 8

\* analyzeReferenceStyle(referenceImages, 'openai', isUniqueConcept): whether
\* the vision backend is called, and the text returned.  The default style is
\* returned without a call when there is no image, and when the call fails.
analyzeReferenceStyle(refs) ==
    LET images == SubSeq(refs, 1, Min(AnalysisImageCap, Len(refs)))
    IN  IF Len(images) = 0
        THEN { [called |-> FALSE, styleGuide |-> "default"] }
        ELSE { [called |-> TRUE, styleGuide |-> "analysis"],
               [called |-> TRUE, styleGuide |-> "default"] }

\* researchConcept(prompt): the research text, or the stub when the call fails
researchConcept == { "research", "stub" }

\* buildGenerationPrompt(prompt, referenceImages, relatedRobots,
\* extensiveThinking): the analysis and the research run only with
\* extensiveThinking; fast mode takes the default style and the stub
buildGenerationPrompt(refs, extensiveThinking) ==
    IF extensiveThinking
    THEN { [analysisCalls |-> IF a.called THEN 1 ELSE 0, researchCalls |-> 1,
            styleGuide |-> a.styleGuide, research |-> text] :
             a \in analyzeReferenceStyle(refs), text \in researchConcept }
    ELSE { [analysisCalls |-> 0, researchCalls |-> 0,
            styleGuide |-> "default", research |-> "stub"] }

\* What the image call of a backend can return: no image (the function
\* throws), or an image, for OpenAI with or without response.usage.
GenerationOutcomes(b) ==
    IF b = "google"
    THEN { [image |-> FALSE, estimated_cost |-> 0],
           [image |-> TRUE, estimated_cost |-> googleEstimatedCost] }
    ELSE { [image |-> FALSE, estimated_cost |-> 0] }
         \cup { [image |-> TRUE, estimated_cost |-> openaiEstimatedCost(u)] :
                  u \in UsageReports }

\* faulty variant: the file of a single-backend generation carries the
\* backend's suffix too
SaveStemTagged(r, b) == normalizedPrompt(req[r].prompt) \o Tag(b)

\* the stem of the file a generation is saved under (946, 981, 1147)
SaveStem(r, b) ==
    IF req[r].model = "both"
    THEN normalizedPrompt(req[r].prompt) \o Tag(b)
    ELSE normalizedPrompt(req[r].prompt)

\* faulty variant: the per-backend catch is missing, so a failed call rejects
\* Promise.all and the handler's catch answers 500
SettleFailFast(r, b, entry) ==
    LET nb == [branch[r] EXCEPT ![b] = [pc |-> "settled", result |-> entry]]
    IN  /\ branch' = [branch EXCEPT ![r] = nb]
        /\ IF req[r].model = "both"
           THEN IF ~entry.success
                THEN Respond(r, ErrorResponse)
                ELSE IF AllSettled(nb)
                     THEN Respond(r, CombinedResponse(nb))
                     ELSE UNCHANGED << pc, response, promo, relatedRobots,
                                       referenceImages >>
           ELSE Respond(r, IF entry.success
                           THEN FreshResponse(branch[r][b].result)
                           ELSE ErrorResponse)

\* faulty variant: the handler's catch is missing in single-backend mode, a
\* call that threw is answered as a success without a file
SettleSwallowsError(r, b, entry) ==
    LET nb == [branch[r] EXCEPT ![b] = [pc |-> "settled", result |-> entry]]
    IN  /\ branch' = [branch EXCEPT ![r] = nb]
        /\ IF req[r].model = "both"
           THEN IF AllSettled(nb)
                THEN Respond(r, CombinedResponse(nb))
                ELSE UNCHANGED << pc, response, promo, relatedRobots,
                                  referenceImages >>
           ELSE Respond(r, IF entry.success
                           THEN FreshResponse(branch[r][b].result)
                           ELSE [status |-> 200, success |-> TRUE])

\* A generateWith... call of request r is over, with the result `entry`
\* (ErrorEntry when it threw or the save failed).  A single-backend handler
\* answers at once; the "both" handler answers when Promise.all resolves.
Settle(r, b, entry) ==
    LET nb == [branch[r] EXCEPT ![b] = [pc |-> "settled", result |-> entry]]
    IN  /\ branch' = [branch EXCEPT ![r] = nb]
        /\ IF req[r].model = "both"
           THEN IF AllSettled(nb)
                THEN Respond(r, CombinedResponse(nb))
                ELSE UNCHANGED << pc, response, promo, relatedRobots,
                                  referenceImages >>
           ELSE Respond(r, IF entry.success
                           THEN FreshResponse(branch[r][b].result)
                           ELSE ErrorResponse)

\* faulty variant: a call that returns no image is made again (up to three
\* calls) in place of throwing
GenerateRetries(r, b) ==
    /\ branch[r][b].pc = "generate"
    /\ calls[r][b].generation < 3
    /\ \E built \in buildGenerationPrompt(branch[r][b].referenceImages,
                                          req[r].extensiveThinking) :
       \E out \in GenerationOutcomes(b) :
          /\ calls' = [calls EXCEPT ![r][b] =
                         [analysis |-> @.analysis + built.analysisCalls,
                          research |-> @.research + built.researchCalls,
                          generation |-> @.generation + 1]]
          /\ IF out.image
             THEN /\ \E t \in DateNow :
                       /\ now' = t
                       /\ branch' = [branch EXCEPT ![r][b] =
                            [pc |-> "save",
                             result |->
                               [success |-> TRUE,
                                filename |-> TimestampedName(SaveStem(r, b), t),
                                research |-> IF req[r].model = "both"
                                             THEN "unread"
                                             ELSE built.research,
                                estimated_cost |-> out.estimated_cost,
                                cost |-> toFixed4(out.estimated_cost)]]]
                  /\ UNCHANGED << pc, response, promo, relatedRobots,
                                  referenceImages, fault >>
             ELSE UNCHANGED << now, branch, pc, response, promo, relatedRobots,
                               referenceImages, fault >>
    /\ UNCHANGED << generated, req, hit, created, doneBefore >>
    /\ UNCHANGED functionVars

\* generateWithOpenAI / generateWithGoogle (581-660, 663-779): the prompt is
\* built, the image call returns, the cost is computed; back in the handler
\* (946, 981, 1147) the file name is made from Date.now().  The "both" branch
\* does not read result.research.
Generate(r, b) ==
    /\ branch[r][b].pc = "generate"
    /\ \E built \in buildGenerationPrompt(branch[r][b].referenceImages,
                                          req[r].extensiveThinking) :
       \E out \in GenerationOutcomes(b) :
          /\ calls' = [calls EXCEPT ![r][b] =
                         [analysis |-> @.analysis + built.analysisCalls,
                          research |-> @.research + built.researchCalls,
                          generation |-> @.generation + 1]]
          /\ IF out.image
             THEN /\ \E t \in DateNow :
                       /\ now' = t
                       /\ branch' = [branch EXCEPT ![r][b] =
                            [pc |-> "save",
                             result |->
                               [success |-> TRUE,
                                filename |-> TimestampedName(SaveStem(r, b), t),
                                research |-> IF req[r].model = "both"
                                             THEN "unread"
                                             ELSE built.research,
                                estimated_cost |-> out.estimated_cost,
                                cost |-> toFixed4(out.estimated_cost)]]]
                  /\ UNCHANGED << pc, response, promo, relatedRobots,
                                  referenceImages, fault >>
             ELSE /\ Settle(r, b, ErrorEntry)
                  /\ fault' = [fault EXCEPT ![r] = @ \cup { b }]
                  /\ UNCHANGED now
    /\ UNCHANGED << generated, req, hit, created, doneBefore >>
    /\ UNCHANGED functionVars

\* server.js 948, 983, 1150: await fs.writeFile(filepath, result.imageBuffer),
\* then the result entry or the response
Save(r, b) ==
    /\ branch[r][b].pc = "save"
    /\ \E ok \in BOOLEAN :
          IF ok
          THEN /\ generated' = writeFile(generated, branch[r][b].result.filename,
                                         ImageBytes(r, b))
               /\ created' = [created EXCEPT ![r] =
                                @ \cup { branch[r][b].result.filename }]
               /\ Settle(r, b, FreshEntry(branch[r][b].result))
               /\ UNCHANGED fault
          ELSE /\ Settle(r, b, ErrorEntry)
               /\ fault' = [fault EXCEPT ![r] = @ \cup { b }]
               /\ UNCHANGED << generated, created >>
    /\ UNCHANGED << now, req, hit, calls, doneBefore >>
    /\ UNCHANGED functionVars

(****************************** specification ******************************)

Next ==
    \E r \in Requests :
       \/ \E p \in Prompts, m \in Models, e \in BOOLEAN : Receive(r, p, m, e)
       \/ CheckGenerated(r)
       \/ CheckReference(r)
       \/ CheckSecondary(r)
       \/ Promote(r)
       \/ FindRelated(r)
       \/ FanCheck(r)
       \/ FanShared(r)
       \/ \E b \in Backends : Generate(r, b)
       \/ \E b \in Backends : Save(r, b)

Spec == Init /\ [][Next]_vars

\* the steps of the handler for request r once the request is received:
\* each is the continuation of an awaited file operation or backend call
Handle(r) ==
    \/ CheckGenerated(r)
    \/ CheckReference(r)
    \/ CheckSecondary(r)
    \/ Promote(r)
    \/ FindRelated(r)
    \/ FanCheck(r)
    \/ FanShared(r)
    \/ \E b \in Backends : Generate(r, b)
    \/ \E b \in Backends : Save(r, b)

\* the request whose file operations and backend calls all return; the
\* calls of the other request may never return
Responsive == "r2"

\* the prompts of the requests under fairness: the empty prompt and the
\* concept of the secondary folder, which can take every path of the handler
LivePrompts == { EmptyPrompt, <<"Z","i","g">> }

LiveNext ==
    \E r \in Requests :
       \/ \E p \in LivePrompts, m \in Models, e \in BOOLEAN : Receive(r, p, m, e)
       \/ Handle(r)

\* the event loop runs the continuation of every operation that returns
LiveSpec == Init /\ [][LiveNext]_vars /\ WF_vars(Handle(Responsive))

(*************** findRelatedRobots on a library of its own ****************)

\* the concepts the matcher is asked for
MatcherPrompts ==
    { <<"G","o">>,
      <<"G","o"," ","Z","i","g">>,
      <<"g","o",",","g","o">>,
      <<"P","y","t","h","o","n"," ","O","p","t","i","m","i","z","e","r">>,
      <<"N","i","m">>,
      <<"Z","i","g"," ","C"," ","G","o"," ","Z","i","g">> }

\* the files the three directories can hold when the matcher lists them
MatcherGeneratedFiles ==
    { TimestampedName(<<"g","o">>, 0),
      TimestampedName(<<"g","o","_","z","i","g">>, 1),
      TimestampedName(<<"z","i","g">> \o OpenaiTag, 0) }

MatcherReferenceFiles ==
    { <<"G","o",".","p","n","g">>,
      <<"p","y","t","h","o","n",".","p","n","g">>,
      <<"Z","i","g",".","P","N","G">> }

MatcherSecondaryFiles ==
    { <<"z","i","g",".","j","p","g">>,
      <<"G","O",".","p","n","g">>,
      <<"c",".","p","n","g">> }

\* a library and a concept: what each directory holds and whether its
\* listing succeeds
MatcherInit ==
    /\ HandlerInit
    /\ promptRun = NoRun
    /\ normRun = NoRun
    /\ OthersIdle
    /\ \E p \in MatcherPrompts,
          gen \in SUBSET MatcherGeneratedFiles,
          ref \in SUBSET MatcherReferenceFiles,
          sec \in SUBSET MatcherSecondaryFiles,
          genOk \in BOOLEAN, refOk \in BOOLEAN, secOk \in BOOLEAN :
          matchRun = [stage |-> "listed", prompt |-> p,
                      gen |-> gen, ref |-> ref, sec |-> sec,
                      genOk |-> genOk, refOk |-> refOk, secOk |-> secOk,
                      relatedRobots |-> << >>, loadOk |-> TRUE,
                      referenceImages |-> << >>]

\* server.js 782-879: one call of findRelatedRobots(prompt); the inner try
\* (794-798) leaves secondaryReferenceFiles empty when its readdir fails
MatchRobots ==
    /\ matchRun.stage = "listed"
    /\ \E rel \in findRelatedRobots(matchRun.prompt, matchRun.gen, matchRun.ref,
                                     IF matchRun.secOk THEN matchRun.sec ELSE {},
                                     matchRun.genOk, matchRun.refOk) :
          matchRun' = [matchRun EXCEPT !.stage = "matched",
                                       !.relatedRobots = rel]
    /\ UNCHANGED << handlerVars, promptRun, normRun, composeRun, nameRun,
                    galleryRun, styleRun, timingRun >>

\* server.js 924-931, 1125-1132: the reference list for the match result;
\* loadReferenceImages lists Reference Images/ again, which can fail
SelectReferences ==
    /\ matchRun.stage = "matched"
    /\ \E ok \in (IF Len(matchRun.relatedRobots) > 0 THEN { TRUE } ELSE BOOLEAN) :
       \E refs \in ReferencesFrom(matchRun.relatedRobots, matchRun.ref, ok) :
          matchRun' = [matchRun EXCEPT !.stage = "selected",
                                       !.loadOk = ok,
                                       !.referenceImages = refs]
    /\ UNCHANGED << handlerVars, promptRun, normRun, composeRun, nameRun,
                    galleryRun, styleRun, timingRun >>

MatcherNext == MatchRobots \/ SelectReferences

MatcherSpec == MatcherInit /\ [][MatcherNext]_vars

(******************* generateWith... followed step by step *****************)

ToUpperChar(c) ==
    IF c \in Range(Lowers)
    THEN Uppers[CHOOSE i \in DOMAIN Lowers : Lowers[i] = c]
    ELSE c

\* String.prototype.toUpperCase
toUpperCase(s) == [i \in DOMAIN s |-> ToUpperChar(s[i])]

\* getDefaultStyleDescription()
DefaultStyle == [kind |-> "defaultStyle"]

\* response.text() / response.choices[0].message.content of an analysis made
\* by backend `by` with the style-only or the full instructions
StyleText(by, isUniqueConcept) ==
    [kind |-> "analysis", by |-> by, styleOnly |-> isUniqueConcept]

\* `Creating a robot for ${concept}`
ResearchStub(concept) == [kind |-> "stub", concept |-> concept]

\* the text of a research made by backend `by`
ResearchText(by, concept) == [kind |-> "research", by |-> by, concept |-> concept]

\* analyzeReferenceStyle(referenceImages, model, isUniqueConcept).  readable:
\* the paths imageToBase64 can read; googleOk, openaiOk: whether the call of
\* that backend succeeds.  threw: whether an exception leaves the function.
StyleAnalysis(refs, readable, model, isUniqueConcept, googleOk, openaiOk) ==
    LET images == SubSeq(refs, 1, Min(AnalysisImageCap, Len(refs)))
        Loaded(path) == path \in readable
        base64Images == SelectSeq(images, Loaded)
        tried == IF model = "google" THEN 1 ELSE 0
    IN  IF Len(base64Images) = 0
        THEN [text |-> DefaultStyle, calls |-> 0, failed |-> FALSE,
              threw |-> FALSE]
        ELSE IF model = "google" /\ googleOk
             THEN [text |-> StyleText("google", isUniqueConcept), calls |-> 1,
                   failed |-> FALSE, threw |-> FALSE]
             ELSE IF openaiOk
                  THEN [text |-> StyleText("openai", isUniqueConcept),
                        calls |-> tried + 1, failed |-> FALSE, threw |-> FALSE]
                  ELSE [text |-> DefaultStyle, calls |-> tried + 1,
                        failed |-> TRUE, threw |-> FALSE]

\* faulty variant: the outer catch is missing, a failed call leaves the
\* function as an exception
ConceptResearchUncaught(concept, model, googleOk, openaiOk) ==
    LET tried == IF model = "google" THEN 1 ELSE 0
    IN  IF model = "google" /\ googleOk
        THEN [text |-> ResearchText("google", concept), calls |-> 1,
              failed |-> FALSE, threw |-> FALSE]
        ELSE IF openaiOk
             THEN [text |-> ResearchText("openai", concept), calls |-> tried + 1,
                   failed |-> FALSE, threw |-> FALSE]
             ELSE [text |-> ResearchStub(concept), calls |-> tried + 1,
                   failed |-> TRUE, threw |-> TRUE]

\* researchConcept(concept, model)
ConceptResearch(concept, model, googleOk, openaiOk) ==
    LET tried == IF model = "google" THEN 1 ELSE 0
    IN  IF model = "google" /\ googleOk
        THEN [text |-> ResearchText("google", concept), calls |-> 1,
              failed |-> FALSE, threw |-> FALSE]
        ELSE IF openaiOk
             THEN [text |-> ResearchText("openai", concept), calls |-> tried + 1,
                   failed |-> FALSE, threw |-> FALSE]
             ELSE [text |-> ResearchStub(concept), calls |-> tried + 1,
                   failed |-> TRUE, threw |-> FALSE]

\* relatedRobots.map(r => r.name)
RobotNames(related) == [i \in DOMAIN related |-> related[i].name]

\* the paragraphs of finalPrompt that depend on the match result
UniquenessInstruction(prompt) == [kind |-> "uniqueness", concept |-> prompt]

CoreIdentityInstruction(prompt, related) ==
    [kind |-> "coreIdentity", concept |-> prompt, names |-> RobotNames(related)]

RememberUnique(prompt) == [kind |-> "rememberUnique", concept |-> prompt]

VariantOfBase(prompt) == [kind |-> "variantOfBase", concept |-> prompt]

\* faulty variant: the uniqueness paragraph is added whatever was matched
finalPromptAlwaysUnique(prompt, related, styleGuide, research) ==
    LET isUniqueConcept == Len(related) = 0
        relatedInfo == IF Len(related) > 0
                       THEN << CoreIdentityInstruction(prompt, related),
                               UniquenessInstruction(prompt) >>
                       ELSE << UniquenessInstruction(prompt) >>
    IN  << [kind |-> "render3d"], [kind |-> "noText", concept |-> prompt] >>
        \o relatedInfo
        \o << [kind |-> "style", text |-> styleGuide],
               [kind |-> "requirements"],
               [kind |-> "customization", heading |-> toUpperCase(prompt),
                text |-> research],
               IF isUniqueConcept THEN RememberUnique(prompt)
                                  ELSE VariantOfBase(prompt),
               [kind |-> "reminderNoText", concept |-> prompt] >>

\* finalPrompt of buildGenerationPrompt (519-575), paragraph by paragraph
finalPrompt(prompt, related, styleGuide, research) ==
    LET isUniqueConcept == Len(related) = 0
        uniquenessInstruction == IF isUniqueConcept
                                 THEN << UniquenessInstruction(prompt) >>
                                 ELSE << >>
        relatedInfo == IF Len(related) > 0
                       THEN << CoreIdentityInstruction(prompt, related) >>
                       ELSE uniquenessInstruction
    IN  << [kind |-> "render3d"], [kind |-> "noText", concept |-> prompt] >>
        \o relatedInfo
        \o << [kind |-> "style", text |-> styleGuide],
               [kind |-> "requirements"],
               [kind |-> "customization", heading |-> toUpperCase(prompt),
                text |-> research],
               IF isUniqueConcept THEN RememberUnique(prompt)
                                  ELSE VariantOfBase(prompt),
               [kind |-> "reminderNoText", concept |-> prompt] >>

\* the concepts the pipeline is followed for: one robot related, two robots
\* related, none related
PromptConcepts ==
    { <<"G","o">>, <<"G","o"," ","Z","i","g">>, <<"N","i","m">> }

\* no text yet
NoText == [kind |-> "none"]

\* generateWithOpenAI / generateWithGoogle is called (945, 980, 1141, 1143)
\* with the related robots and the reference images the handler gathered;
\* each reference image can be read or not
PromptInit ==
    /\ HandlerInit
    /\ matchRun = NoRun
    /\ normRun = NoRun
    /\ OthersIdle
    /\ \E p \in PromptConcepts, b \in Backends, e \in BOOLEAN :
       \E rel \in findRelatedRobots(p, {}, ReferenceFiles,
                                    SecondaryReferenceFiles, TRUE, TRUE) :
       \E refs \in ReferencesFor(rel) :
       \E readable \in SUBSET Range(refs) :
          promptRun = [stage |-> "called", prompt |-> p, backend |-> b,
                       extensiveThinking |-> e, relatedRobots |-> rel,
                       referenceImages |-> refs, readable |-> readable,
                       styleGuide |-> NoText, research |-> NoText,
                       finalPrompt |-> << >>, failed |-> {}, calls |-> 0,
                       image |-> FALSE]

\* an exception leaves buildGenerationPrompt and generateWith...
PromptThrows(step) ==
    promptRun' = [promptRun EXCEPT !.stage = "threw", !.failed = @ \cup { step }]

\* faulty variant: the analysis is made whatever extensiveThinking says
AnalyzeStyleAlways ==
    /\ promptRun.stage = "called"
    /\ \E openaiOk \in BOOLEAN :
          LET out == StyleAnalysis(promptRun.referenceImages,
                                   promptRun.readable, "openai",
                                   Len(promptRun.relatedRobots) = 0,
                                   FALSE, openaiOk)
          IN  promptRun' =
                [promptRun EXCEPT
                   !.stage = "analyzed",
                   !.styleGuide = out.text,
                   !.calls = @ + out.calls,
                   !.failed = IF out.failed THEN @ \cup { "analysis" } ELSE @]
    /\ UNCHANGED << handlerVars, matchRun, normRun, composeRun, nameRun,
                    galleryRun, styleRun, timingRun >>

\* server.js 508-510: the style guide, by analysis or by default
AnalyzeStyle ==
    /\ promptRun.stage = "called"
    /\ IF promptRun.extensiveThinking
       THEN \E openaiOk \in BOOLEAN :
               LET out == StyleAnalysis(promptRun.referenceImages,
                                        promptRun.readable, "openai",
                                        Len(promptRun.relatedRobots) = 0,
                                        FALSE, openaiOk)
               IN  IF out.threw
                   THEN PromptThrows("analysis")
                   ELSE promptRun' =
                          [promptRun EXCEPT
                             !.stage = "analyzed",
                             !.styleGuide = out.text,
                             !.calls = @ + out.calls,
                             !.failed = IF out.failed THEN @ \cup { "analysis" }
                                                      ELSE @]
       ELSE promptRun' = [promptRun EXCEPT !.stage = "analyzed",
                                           !.styleGuide = DefaultStyle]
    /\ UNCHANGED << handlerVars, matchRun, normRun, composeRun, nameRun,
                    galleryRun, styleRun, timingRun >>

\* server.js 511: the research, or the stub in fast mode
ResearchConcept ==
    /\ promptRun.stage = "analyzed"
    /\ IF promptRun.extensiveThinking
       THEN \E openaiOk \in BOOLEAN :
               LET out == ConceptResearch(promptRun.prompt, "openai",
                                          FALSE, openaiOk)
               IN  IF out.threw
                   THEN PromptThrows("research")
                   ELSE promptRun' =
                          [promptRun EXCEPT
                             !.stage = "researched",
                             !.research = out.text,
                             !.calls = @ + out.calls,
                             !.failed = IF out.failed THEN @ \cup { "research" }
                                                      ELSE @]
       ELSE promptRun' = [promptRun EXCEPT
                            !.stage = "researched",
                            !.research = ResearchStub(promptRun.prompt)]
    /\ UNCHANGED << handlerVars, matchRun, normRun, composeRun, nameRun,
                    galleryRun, styleRun, timingRun >>

\* server.js 519-577: the prompt is composed and returned
ComposePrompt ==
    /\ promptRun.stage = "researched"
    /\ promptRun' = [promptRun EXCEPT
                       !.stage = "composed",
                       !.finalPrompt = finalPrompt(promptRun.prompt,
                                                   promptRun.relatedRobots,
                                                   promptRun.styleGuide,
                                                   promptRun.research)]
    /\ UNCHANGED << handlerVars, matchRun, normRun, composeRun, nameRun,
                    galleryRun, styleRun, timingRun >>

\* server.js 586-638, 668-728: the image call with finalPrompt; without an
\* image the function throws
CallImageBackend ==
    /\ promptRun.stage = "composed"
    /\ \E out \in GenerationOutcomes(promptRun.backend) :
          IF out.image
          THEN promptRun' = [promptRun EXCEPT !.stage = "returned",
                                              !.calls = @ + 1,
                                              !.image = TRUE]
          ELSE promptRun' = [promptRun EXCEPT !.stage = "threw",
                                              !.calls = @ + 1,
                                              !.failed = @ \cup { "image" }]
    /\ UNCHANGED << handlerVars, matchRun, normRun, composeRun, nameRun,
                    galleryRun, styleRun, timingRun >>

PromptNext ==
    \/ AnalyzeStyle
    \/ ResearchConcept
    \/ ComposePrompt
    \/ CallImageBackend

PromptSpec == PromptInit /\ [][PromptNext]_vars

(************************ the two normalizations ***************************)

\* the longest concept text normalized
MaxTextLen == 3

\* the characters of a concept text: a lower-case and an upper-case letter,
\* a digit, a blank, the underscore, a punctuation mark and a character
\* outside ASCII with an ASCII lower case
TextChars == { "a", "Z", "7", " ", "_", "-", KelvinSign }

Texts == UNION { [1..n -> TextChars] : n \in 0..MaxTextLen }

NormInit ==
    /\ HandlerInit
    /\ matchRun = NoRun
    /\ promptRun = NoRun
    /\ OthersIdle
    /\ \E x \in Texts :
          normRun = [stage |-> "given", x |-> x,
                     clean |-> << >>, underscored |-> << >>,
                     cleanAgain |-> << >>, underscoredAgain |-> << >>]

\* server.js 802 (promptClean) and 1016 (normalizedPrompt) applied to x
NormalizeOnce ==
    /\ normRun.stage = "given"
    /\ normRun' = [normRun EXCEPT
                     !.stage = "once",
                     !.clean = searchTerm(normRun.x),
                     !.underscored = normalizedPrompt(normRun.x)]
    /\ UNCHANGED << handlerVars, matchRun, promptRun, composeRun, nameRun,
                    galleryRun, styleRun, timingRun >>

\* the same two expressions applied to their own results
NormalizeAgain ==
    /\ normRun.stage = "once"
    /\ normRun' = [normRun EXCEPT
                     !.stage = "twice",
                     !.cleanAgain = searchTerm(normRun.clean),
                     !.underscoredAgain = normalizedPrompt(normRun.underscored)]
    /\ UNCHANGED << handlerVars, matchRun, promptRun, composeRun, nameRun,
                    galleryRun, styleRun, timingRun >>

NormNext ==
    \/ NormalizeOnce
    \/ NormalizeAgain

NormSpec == NormInit /\ [][NormNext]_vars

(****************** the prompt each backend is handed **********************)

\* the text part of the request a backend is sent: finalPrompt of
\* buildGenerationPrompt, taken at 584 and put first in `parts` (605) by
\* generateWithGoogle, taken at 666 and put first in contentArray (688-691)
\* by generateWithOpenAI
TextPartPerBackend(backend, prompt, related, styleGuide, research) ==
    IF backend = "google"
    THEN finalPrompt(prompt, related, styleGuide, research)
         \o << [kind |-> "googleHint"] >>
    ELSE finalPrompt(prompt, related, styleGuide, research)

TextPart(backend, prompt, related, styleGuide, research) ==
    IF backend = "google"
    THEN finalPrompt(prompt, related, styleGuide, research)
    ELSE finalPrompt(prompt, related, styleGuide, research)

\* the match results a concept is composed with: none, and what the matcher
\* finds for it in the reference sets
ComposeMatches(p) ==
    { << >> } \cup findRelatedRobots(p, {}, ReferenceFiles,
                                     SecondaryReferenceFiles, TRUE, TRUE)

\* the style texts and research texts buildGenerationPrompt can hold at 510
\* and 511
ComposeStyles(related) == { DefaultStyle, StyleText("openai", Len(related) = 0) }

ComposeResearches(p) == { ResearchStub(p), ResearchText("openai", p) }

NoComposition == [backend |-> "none"]

Composition(backend, prompt, related, styleGuide, research) ==
    [backend |-> backend, prompt |-> prompt, relatedRobots |-> related,
     styleGuide |-> styleGuide, research |-> research,
     text |-> TextPart(backend, prompt, related, styleGuide, research)]

ComposeInit ==
    /\ HandlerInit
    /\ styleRun = NoRun
    /\ timingRun = NoRun
    /\ matchRun = NoRun
    /\ promptRun = NoRun
    /\ normRun = NoRun
    /\ nameRun = NoRun
    /\ galleryRun = NoRun
    /\ composeRun = [stage |-> "start", first |-> NoComposition,
                     second |-> NoComposition]

\* one call of generateWith... reaches the request it sends
ComposeFor(from, to, field) ==
    /\ composeRun.stage = from
    /\ \E b \in Backends, p \in PromptConcepts :
       \E rel \in ComposeMatches(p) :
       \E style \in ComposeStyles(rel), research \in ComposeResearches(p) :
          composeRun' = [composeRun EXCEPT
                           !.stage = to,
                           ![field] = Composition(b, p, rel, style, research)]
    /\ UNCHANGED << handlerVars, matchRun, promptRun, normRun, nameRun,
                    galleryRun, styleRun, timingRun >>

ComposeFirst == ComposeFor("start", "one", "first")

ComposeSecond == ComposeFor("one", "two", "second")

ComposeNext == ComposeFirst \/ ComposeSecond

ComposeSpec == ComposeInit /\ [][ComposeNext]_vars

(******************* a saved file name and its readers *********************)

\* /\.(png|jpg|jpeg)$/i
ImageExtensions == { PngExt, JpgExt, JpegExt }

HasImageExtension(file) ==
    \E e \in ImageExtensions : EndsWith(toLowerCase(file), e)

\* the extension /\.(png|jpg|jpeg)$/i matches at the end of the name
ImageExtensionOf(file) ==
    CHOOSE e \in ImageExtensions : EndsWith(toLowerCase(file), e)

\* faulty variant: /(_\d{13})+\.(png|jpg|jpeg)$/i, every trailing group of
\* thirteen digits is removed
GalleryStripRepeated(filename) ==
    LET RECURSIVE StripAll(_)
        StripAll(x) == IF StripTimestamp(x) = x THEN x
                       ELSE StripAll(StripTimestamp(x))
    IN  IF ~HasImageExtension(filename)
        THEN filename
        ELSE LET stem == DropLast(filename, Len(ImageExtensionOf(filename)))
             IN  IF StripTimestamp(stem) = stem THEN filename ELSE StripAll(stem)

\* filename.replace(/_\d{13}\.(png|jpg|jpeg)$/i, '') (1268): the timestamp
\* and the extension are removed together, or nothing is
GalleryStrip(filename) ==
    IF ~HasImageExtension(filename)
    THEN filename
    ELSE LET stem == DropLast(filename, Len(ImageExtensionOf(filename)))
         IN  IF StripTimestamp(stem) = stem THEN filename
             ELSE StripTimestamp(stem)

\* s.replace(/_/g, ' ')
UnderscoresToSpaces(s) == [i \in DOMAIN s |-> IF s[i] = "_" THEN " " ELSE s[i]]

\* name of a gallery entry (1268)
GalleryName(filename) == UnderscoresToSpaces(GalleryStrip(filename))

\* name of a generated robot in the matcher (810)
RobotName(file) == StripTimestamp(BaseNoExt(file))

\* the concepts whose file names are followed: plain, of several words,
\* ending in a digit, in characters that become underscores, in an
\* underscore with thirteen digits, in thirteen digits
NameConcepts ==
    { <<"G","o">>,
      <<"G","o"," ","Z","i","g">>,
      <<"g","o"," ","7">>,
      <<"R","2","D","2">>,
      <<"C","+","+">>,
      <<"g","o","_">>,
      <<"_">>,
      <<"7">>,
      <<"x"," ">> \o DateNowString(0),
      <<"x","_">> \o DateNowString(1),
      <<"v">> \o DateNowString(0),
      <<"x","_">> \o DateNowString(0) \o <<"_">> \o DateNowString(0) }

\* no tag (1147), "_openai" (946), "_google" (981)
NameTags == { << >>, OpenaiTag, GoogleTag }

\* a file is saved under `${normalizedPrompt}[_tag]_${Date.now()}.png`
NameInit ==
    /\ HandlerInit
    /\ styleRun = NoRun
    /\ timingRun = NoRun
    /\ matchRun = NoRun
    /\ promptRun = NoRun
    /\ normRun = NoRun
    /\ composeRun = NoRun
    /\ galleryRun = NoRun
    /\ \E c \in NameConcepts, tag \in NameTags, t \in 0..MaxClock :
          nameRun = [stage |-> "saved", concept |-> c, tag |-> tag,
                     filename |-> TimestampedName(normalizedPrompt(c) \o tag, t),
                     lookupName |-> << >>, robotName |-> << >>,
                     galleryStem |-> << >>, galleryName |-> << >>]

\* the lookup (1022-1024), the matcher (810) and the gallery (1268) each
\* derive a name from the file name
ReadNameBack ==
    /\ nameRun.stage = "saved"
    /\ nameRun' = [nameRun EXCEPT
                     !.stage = "read",
                     !.lookupName = LookupName(nameRun.filename),
                     !.robotName = RobotName(nameRun.filename),
                     !.galleryStem = GalleryStrip(nameRun.filename),
                     !.galleryName = GalleryName(nameRun.filename)]
    /\ UNCHANGED << handlerVars, matchRun, promptRun, normRun, composeRun,
                    galleryRun, styleRun, timingRun >>

NameNext == ReadNameBack

NameSpec == NameInit /\ [][NameNext]_vars

(******************************* the gallery *******************************)

\* the number of files saved before the gallery is asked for
MaxFiles == 3

\* the concepts images are saved for
GalleryConcepts == { <<"G","o">>, <<"Z","i","g">>, <<"N","i","m">> }

\* fs.readdir(dir): the names of the directory in an order the file system
\* chooses
ReaddirOrders(names) ==
    { files \in [1..Cardinality(names) -> names] :
        \A i, j \in 1..Cardinality(names) : files[i] = files[j] => i = j }

\* Array.prototype.reverse
Reversed(s) == [i \in DOMAIN s |-> s[Len(s) + 1 - i]]

\* the entries of the gallery response (1265-1271)
GalleryImages(files) ==
    LET shown == SelectSeq(files, HasImageExtension)
    IN  Reversed([i \in DOMAIN shown |->
                    [filename |-> shown[i], name |-> GalleryName(shown[i])]])

GalleryInit ==
    /\ HandlerInit
    /\ styleRun = NoRun
    /\ timingRun = NoRun
    /\ matchRun = NoRun
    /\ promptRun = NoRun
    /\ normRun = NoRun
    /\ composeRun = NoRun
    /\ nameRun = NoRun
    /\ galleryRun = [stage |-> "saving", saved |-> << >>, files |-> << >>,
                     images |-> << >>]

\* an image is saved into Generated/ (1147-1150), one millisecond after the
\* one before it
SaveImage ==
    /\ galleryRun.stage = "saving"
    /\ Len(galleryRun.saved) < MaxFiles
    /\ \E c \in GalleryConcepts :
          galleryRun' = [galleryRun EXCEPT
                           !.saved = Append(@, TimestampedName(
                                                 normalizedPrompt(c), Len(@)))]
    /\ UNCHANGED << handlerVars, matchRun, promptRun, normRun, composeRun,
                    nameRun, styleRun, timingRun >>

\* GET /api/gallery (1258-1277)
ListGallery ==
    /\ galleryRun.stage = "saving"
    /\ \E ok \in BOOLEAN :
          IF ok
          THEN \E files \in ReaddirOrders(Range(galleryRun.saved)) :
                  galleryRun' = [galleryRun EXCEPT
                                   !.stage = "listed",
                                   !.files = files,
                                   !.images = GalleryImages(files)]
          ELSE galleryRun' = [galleryRun EXCEPT !.stage = "failed"]
    /\ UNCHANGED << handlerVars, matchRun, promptRun, normRun, composeRun,
                    nameRun, styleRun, timingRun >>

GalleryNext == SaveImage \/ ListGallery

GallerySpec == GalleryInit /\ [][GalleryNext]_vars

(************************ analyzeReferenceStyle ****************************)

\* the file of the i-th reference image handed to the analysis
AnalysisFile(i) == <<"r", DigitChars[i + 1]>> \o PngExt

AnalysisPath(i) == <<ReferenceDir, AnalysisFile(i)>>

\* referenceImages: no path, one, two, and one more than slice(0, 8) keeps
AnalysisReferenceLists ==
    { << >>,
      << AnalysisPath(1) >>,
      << AnalysisPath(1), AnalysisPath(2) >>,
      [i \in 1..(AnalysisImageCap + 1) |-> AnalysisPath(i)] }

\* the paths imageToBase64 (308-316) can read: none, the first, the last,
\* all of them
ReadableChoices(refs) ==
    IF refs = << >>
    THEN { {} }
    ELSE { {}, { refs[1] }, { refs[Len(refs)] }, Range(refs) }

\* a call analyzeReferenceStyle(referenceImages, model, isUniqueConcept)
StyleInit ==
    /\ HandlerInit
    /\ matchRun = NoRun
    /\ promptRun = NoRun
    /\ normRun = NoRun
    /\ composeRun = NoRun
    /\ nameRun = NoRun
    /\ galleryRun = NoRun
    /\ timingRun = NoRun
    /\ \E refs \in AnalysisReferenceLists, model \in Backends,
          isUniqueConcept \in BOOLEAN :
       \E readable \in ReadableChoices(refs) :
          styleRun = [stage |-> "called", referenceImages |-> refs,
                      readable |-> readable, model |-> model,
                      isUniqueConcept |-> isUniqueConcept,
                      failedCalls |-> {}, calls |-> 0, text |-> NoText]

\* the backends whose request failed in a call with this outcome
FailedCalls(model, out, googleOk, openaiOk) ==
    IF out.calls = 0
    THEN {}
    ELSE (IF model = "google" /\ ~googleOk THEN { "google" } ELSE {})
         \cup (IF (model # "google" \/ ~googleOk) /\ ~openaiOk
               THEN { "openai" } ELSE {})

\* server.js 319-422: the call returns
AnalyzeReferences ==
    /\ styleRun.stage = "called"
    /\ \E googleOk \in BOOLEAN, openaiOk \in BOOLEAN :
          LET out == StyleAnalysis(styleRun.referenceImages, styleRun.readable,
                                   styleRun.model, styleRun.isUniqueConcept,
                                   googleOk, openaiOk)
          IN  styleRun' = [styleRun EXCEPT
                             !.stage = IF out.threw THEN "threw" ELSE "returned",
                             !.text = out.text,
                             !.calls = out.calls,
                             !.failedCalls = FailedCalls(styleRun.model, out,
                                                         googleOk, openaiOk)]
    /\ UNCHANGED << handlerVars, matchRun, promptRun, normRun, composeRun,
                    nameRun, galleryRun, timingRun >>

StyleNext == AnalyzeReferences

StyleSpec == StyleInit /\ [][StyleNext]_vars

(*************************** the reported times ****************************)

\* the longest an awaited operation takes, in milliseconds
MaxDelay == 2

Delays == 0..MaxDelay

\* what generateWithGoogle (648-659) and generateWithOpenAI (767-778)
\* return besides the image: there is no thinkingTime among the fields
GenerationResult(buildThinkingTime) ==
    [research |-> "research", tokenUsage |-> "tokenUsage", cost |-> "cost"]

\* result.thinkingTime as the test of 1157 reads it: undefined is falsy
ResultThinkingTime(result) ==
    IF "thinkingTime" \in DOMAIN result THEN result.thinkingTime ELSE 0

\* server.js 1113-1119: a single-backend request has missed every lookup
TimingInit ==
    /\ HandlerInit
    /\ matchRun = NoRun
    /\ promptRun = NoRun
    /\ normRun = NoRun
    /\ composeRun = NoRun
    /\ nameRun = NoRun
    /\ galleryRun = NoRun
    /\ styleRun = NoRun
    /\ \E e \in BOOLEAN :
          timingRun = [stage |-> "start", extensiveThinking |-> e, clock |-> 0,
                       overallStartTime |-> 0, thinkingStartTime |-> 0,
                       thinkingTime |-> 0, generationStartTime |-> 0,
                       generationTime |-> 0, buildThinkingTime |-> 0,
                       result |-> [none |-> TRUE],
                       matchingSpent |-> 0, thinkingSpent |-> 0,
                       imageSpent |-> 0, saveSpent |-> 0,
                       timings |-> [none |-> TRUE]]

\* server.js 1122-1136: findRelatedRobots and the reference selection
\* return; thinkingTime and generationStartTime are taken
TimeMatching ==
    /\ timingRun.stage = "start"
    /\ \E d \in Delays :
          LET t == timingRun.clock + d
          IN  timingRun' = [timingRun EXCEPT
                              !.stage = "dispatched",
                              !.clock = t,
                              !.matchingSpent = d,
                              !.thinkingTime = t - timingRun.thinkingStartTime,
                              !.generationStartTime = t]
    /\ UNCHANGED << handlerVars, matchRun, promptRun, normRun, composeRun,
                    nameRun, galleryRun, styleRun >>

\* server.js 505-516: inside generateWith..., buildGenerationPrompt awaits
\* the analysis and the research (nothing is awaited in fast mode) and
\* measures its own thinkingTime
TimeThinking ==
    /\ timingRun.stage = "dispatched"
    /\ \E d \in (IF timingRun.extensiveThinking THEN Delays ELSE { 0 }) :
          timingRun' = [timingRun EXCEPT
                          !.stage = "built",
                          !.clock = @ + d,
                          !.thinkingSpent = d,
                          !.buildThinkingTime = (timingRun.clock + d)
                                                - timingRun.clock]
    /\ UNCHANGED << handlerVars, matchRun, promptRun, normRun, composeRun,
                    nameRun, galleryRun, styleRun >>

\* the image call returns and generateWith... returns its result, or the
\* call throws and the handler answers 500 (1175-1181)
TimeImageCall ==
    /\ timingRun.stage = "built"
    /\ \E d \in Delays, ok \in BOOLEAN :
          IF ok
          THEN timingRun' = [timingRun EXCEPT
                               !.stage = "returned",
                               !.clock = @ + d,
                               !.imageSpent = d,
                               !.result = GenerationResult(
                                             timingRun.buildThinkingTime)]
          ELSE timingRun' = [timingRun EXCEPT !.stage = "failed",
                                              !.clock = @ + d,
                                              !.imageSpent = d]
    /\ UNCHANGED << handlerVars, matchRun, promptRun, normRun, composeRun,
                    nameRun, galleryRun, styleRun >>

\* server.js 1147-1173: the file is written, generationTime is taken, the
\* thinking time of the result is moved over when the result has one, and
\* the response carries the timings
TimeSaveAndRespond ==
    /\ timingRun.stage = "returned"
    /\ \E d \in Delays :
          LET t == timingRun.clock + d
              elapsed == t - timingRun.generationStartTime
              moved == ResultThinkingTime(timingRun.result)
              thinkingTime == IF moved # 0 THEN timingRun.thinkingTime + moved
                                           ELSE timingRun.thinkingTime
              generationTime == IF moved # 0 THEN elapsed - moved ELSE elapsed
          IN  timingRun' = [timingRun EXCEPT
                              !.stage = "responded",
                              !.clock = t,
                              !.saveSpent = d,
                              !.thinkingTime = thinkingTime,
                              !.generationTime = generationTime,
                              !.timings =
                                 [thinkingTime |->
                                    IF timingRun.extensiveThinking
                                    THEN thinkingTime ELSE 0,
                                  generationTime |-> generationTime,
                                  totalTime |-> t - timingRun.overallStartTime]]
    /\ UNCHANGED << handlerVars, matchRun, promptRun, normRun, composeRun,
                    nameRun, galleryRun, styleRun >>

TimingNext ==
    \/ TimeMatching
    \/ TimeThinking
    \/ TimeImageCall
    \/ TimeSaveAndRespond

TimingSpec == TimingInit /\ [][TimingNext]_vars

(******************************* properties ********************************)

\* the request came with a concept and one backend / with model "both"
Single(r) ==
    pc[r] # "idle" /\ req[r].prompt # EmptyPrompt /\ req[r].model # "both"

FanOut(r) ==
    pc[r] # "idle" /\ req[r].prompt # EmptyPrompt /\ req[r].model = "both"

\* a response or a result entry flagged cached: true
IsCached(x) == "cached" \in DOMAIN x /\ x.cached

\* the request made no analysis, research or generation call
NoBackendCall(r) == \A b \in Backends : calls[r][b] = NoCalls

\* the response of a fresh single-backend generation
IsFresh(r) ==
    /\ pc[r] = "done"
    /\ response[r].status = 200
    /\ "results" \notin DOMAIN response[r]
    /\ ~IsCached(response[r])

\* q generated and saved the concept with one backend and had answered
\* before r came, for the same concept and the same backend
GeneratedBefore(q, r) ==
    /\ q \in doneBefore[r]
    /\ Single(q) /\ Single(r)
    /\ req[q].prompt = req[r].prompt
    /\ DispatchTo(req[q].model) = DispatchTo(req[r].model)
    /\ IsFresh(q)
    /\ created[q] # {}

\* C1: after a single-backend request has generated and saved an artifact
\* for a concept, a request for the same concept and backend that comes after
\* the first was answered is, once it has listed Generated/, answered from
\* the cache (cached: true, an existing file) without any analysis, research
\* or generation call.
C1_SequentialCacheHit ==
    \A q \in Requests, r \in Requests :
       ( /\ GeneratedBefore(q, r)
         /\ pc[r] # "checkGenerated"
         /\ "readdir" \notin fault[r] )
       => /\ pc[r] = "done"
          /\ response[r].status = 200
          /\ IsCached(response[r])
          /\ response[r].filename \in DOMAIN generated
          /\ LookupName(response[r].filename) = normalizedPrompt(req[r].prompt)
          /\ NoBackendCall(r)
          /\ created[r] = {}

C1_Witness ==
    \E q \in Requests, r \in Requests :
       /\ GeneratedBefore(q, r)
       /\ pc[r] = "done"
       /\ IsCached(response[r])
       /\ response[r].filename \in created[q]

\* C2: a backend call is made only by a request (in "both" mode: for a
\* backend) whose cache lookup missed; a request whose lookup found an
\* artifact in the generated set or in a reference set makes no backend call,
\* and a response flagged cached costs 0.
C2_PaidCallOnlyAfterMiss ==
    \A r \in Requests :
       /\ Single(r) =>
            /\ ~NoBackendCall(r) => hit[r] = "miss"
            /\ hit[r] \in { "generated", "reference", "secondary_reference" }
                 => NoBackendCall(r)
       /\ FanOut(r) =>
            \A b \in Backends :
               branch[r][b].pc = "cached" => calls[r][b] = NoCalls
       /\ (pc[r] = "done" /\ IsCached(response[r])) =>
            response[r].cost = 0 /\ NoBackendCall(r)

\* the state the handler is in when C2 fails: a secondary-reference hit whose
\* copy failed, followed by a generation call
C2_Witness ==
    \E r \in Requests :
       /\ hit[r] = "secondary_reference"
       /\ "promote" \in fault[r]
       /\ \E b \in Backends : calls[r][b].generation > 0

\* the reference set holds an artifact whose clean name is the concept's
HasPrimaryReference(prompt) ==
    \E f \in ReferenceFiles : CleanName(BaseNoExt(f)) = searchTerm(prompt)

\* every generated file the lookup would match for r's concept was written
\* by r itself
NoOtherGenerated(r) ==
    \A g \in DOMAIN generated :
       LookupName(g) = normalizedPrompt(req[r].prompt) => g \in created[r]

\* C3: a single-backend request whose concept has a primary-reference
\* artifact of the same clean name and no generated artifact is answered
\* (when no listing and no copy fails) with cached: true, cost 0 and source
\* 'reference', without any backend call, and has written exactly one file
\* to Generated/, whose name without timestamp cleans to the concept's clean
\* form.
C3_ReferencePromotion ==
    \A r \in Requests :
       ( /\ Single(r) /\ pc[r] = "done"
         /\ HasPrimaryReference(req[r].prompt)
         /\ NoOtherGenerated(r)
         /\ fault[r] = {} )
       => /\ response[r].status = 200
          /\ IsCached(response[r])
          /\ response[r].cost = 0 /\ response[r].estimated_cost = 0
          /\ "source" \in DOMAIN response[r]
          /\ response[r].source = "reference"
          /\ NoBackendCall(r)
          /\ created[r] = { response[r].filename }
          /\ response[r].filename \in DOMAIN generated
          /\ CleanName(StripTimestamp(BaseNoExt(response[r].filename)))
               = searchTerm(req[r].prompt)

C3_Witness ==
    \E r \in Requests :
       /\ Single(r) /\ pc[r] = "done"
       /\ HasPrimaryReference(req[r].prompt)
       /\ NoOtherGenerated(r)
       /\ fault[r] = {}
       /\ hit[r] = "reference"
       /\ Cardinality(created[r]) = 1

\* the file name carries the concept and the tag of backend b
TaggedFor(f, prompt, b) == LookupName(f) = normalizedPrompt(prompt) \o Tag(b)

\* r is a "both" request answered without fault, for which an earlier
\* request left a tagged file of backend a, and every tagged file of backend
\* b was written by r itself
PartlyCached(r, a, b) ==
    /\ FanOut(r) /\ pc[r] = "done" /\ fault[r] = {}
    /\ a # b
    /\ \E q \in doneBefore[r] :
          \E f \in created[q] : TaggedFor(f, req[r].prompt, a)
    /\ \A g \in DOMAIN generated :
          TaggedFor(g, req[r].prompt, b) => g \in created[r]

ZeroCost(x) ==
    /\ x.cost = 0
    /\ "estimated_cost" \in DOMAIN x => x.estimated_cost = 0

PositiveCost(x) ==
    /\ x.cost > 0
    /\ "estimated_cost" \in DOMAIN x => x.estimated_cost > 0

CostConsistent(x) == IF IsCached(x) THEN ZeroCost(x) ELSE PositiveCost(x)

\* C5: every result flagged cached reports cost zero, and every successful
\* freshly generated result (a single response, an entry of a "both"
\* response, a result about to be saved) reports a cost above zero, for both
\* backends, with and without response.usage.
C5_CostInvariant ==
    \A r \in Requests :
       /\ (pc[r] = "done" /\ response[r].status = 200) =>
            IF "results" \in DOMAIN response[r]
            THEN \A b \in Backends :
                    response[r].results[b].success
                      => CostConsistent(response[r].results[b])
            ELSE CostConsistent(response[r])
       /\ \A b \in Backends :
             branch[r][b].pc = "save" => PositiveCost(branch[r][b].result)

\* a fresh OpenAI result priced by the estimate (no response.usage), a fresh
\* Google result, and a cached result
C5_Witness ==
    /\ \E r \in Requests :
          /\ IsFresh(r)
          /\ req[r].model = "openai"
          /\ response[r].estimated_cost =
               (OpenaiEstimatedPromptTokens * OpenaiInputRate
                  + OpenaiImageTokens * OpenaiOutputRate)
          /\ response[r].cost > 0
    /\ \E r \in Requests :
          /\ pc[r] = "done" /\ response[r].status = 200
          /\ "results" \notin DOMAIN response[r]
          /\ IsCached(response[r])
          /\ response[r].cost = 0

\* C6: in a "both" request whose listing of Generated/ succeeded, the
\* response is a 200 with one entry per backend; a backend whose generation
\* or save failed has an error entry, and every other backend has a success
\* entry naming a file that is in Generated/, whatever happened to the first.
C6_FanOutIsolation ==
    \A r \in Requests :
       (FanOut(r) /\ pc[r] = "done" /\ "readdir" \notin fault[r])
       => /\ response[r].status = 200
          /\ "results" \in DOMAIN response[r]
          /\ DOMAIN response[r].results = Backends
          /\ \A b \in Backends :
                LET e == response[r].results[b]
                IN  IF b \in fault[r]
                    THEN ~e.success
                    ELSE /\ e.success
                         /\ e.filename \in DOMAIN generated
                         /\ TaggedFor(e.filename, req[r].prompt, b)
                         /\ ~IsCached(e) => e.filename \in created[r]

C6_Witness ==
    \E r \in Requests, a \in Backends, b \in Backends :
       /\ FanOut(r) /\ pc[r] = "done"
       /\ fault[r] = { a }
       /\ a # b
       /\ response[r].results[b].success
       /\ ~IsCached(response[r].results[b])
       /\ response[r].results[b].filename \in created[r]
       /\ ~response[r].results[a].success

\* the generateWith... call of backend b in request r has not settled
InFlight(r, b) == branch[r][b].pc \in { "generate", "save" }

\* while the "both" handler waits, nothing is sent and a call is in flight;
\* once it has answered, every backend is cached or settled
WaitsForAll ==
    \A r \in Requests :
       /\ pc[r] = "fanWait" =>
            /\ response[r] = NoResponse
            /\ \E b \in Backends : InFlight(r, b)
       /\ (FanOut(r) /\ pc[r] = "done") =>
            \A b \in Backends : ~InFlight(r, b)

\* the calls of the backends without a cached file are made in one step,
\* before any of them has made a backend call
StartedTogether ==
    \A r \in Requests :
       (pc[r] = "fanShared" /\ pc'[r] = "fanWait")
       => \A b \in Backends :
             /\ branch'[r][b].pc \in { "cached", "generate" }
             /\ calls'[r][b] = NoCalls

\* a call that settles with an error leaves the other backend's call as it
\* is, and while that one is in flight the handler keeps waiting
FailureLeavesOther ==
    \A r \in Requests, b \in Backends, c \in Backends :
       ( /\ FanOut(r) /\ b # c
         /\ InFlight(r, b)
         /\ branch'[r][b].pc = "settled"
         /\ ~branch'[r][b].result.success )
       => /\ branch'[r][c] = branch[r][c]
          /\ InFlight(r, c) =>
               /\ pc'[r] = "fanWait"
               /\ response'[r] = NoResponse

\* C7: in a "both" request the calls of the backends without a cached file
\* are started together, the response is sent only when every started call
\* has settled, and a call that fails neither changes the other call nor
\* makes the handler answer while the other is in flight.
C7_FanOutWaitsForAll ==
    /\ []WaitsForAll
    /\ [][StartedTogether]_vars
    /\ [][FailureLeavesOther]_vars

\* one backend has failed while the other is still in flight and the handler
\* still waits
C7_Witness ==
    \E r \in Requests, b \in Backends, c \in Backends :
       /\ pc[r] = "fanWait"
       /\ branch[r][b].pc = "settled"
       /\ ~branch[r][b].result.success
       /\ InFlight(r, c)
       /\ response[r] = NoResponse

\* both single-backend requests, for the same concept, missed the cache,
\* called the generation backend and saved a file
BothGenerated(q, r) ==
    /\ q # r
    /\ Single(q) /\ Single(r)
    /\ req[q].prompt = req[r].prompt
    /\ IsFresh(q) /\ IsFresh(r)
    /\ hit[q] = "miss" /\ hit[r] = "miss"
    /\ calls[q][DispatchTo(req[q].model)].generation = 1
    /\ calls[r][DispatchTo(req[r].model)].generation = 1
    /\ created[q] # {} /\ created[r] # {}

\* C8: two single-backend requests for the same concept can both miss the
\* cache, both generate and both save (the witness); it happens only to
\* requests in flight together: neither had been answered when the other
\* came.
C8_DoubleGenerationIsConcurrent ==
    \A q \in Requests, r \in Requests :
       BothGenerated(q, r) => (q \notin doneBefore[r] /\ r \notin doneBefore[q])

\* both missed, both generated, and Generated/ holds the two files
C8_Witness ==
    \E q \in Requests, r \in Requests :
       /\ BothGenerated(q, r)
       /\ created[q] # created[r]
       /\ (created[q] \cup created[r]) \subseteq DOMAIN generated
       /\ Cardinality(created[q] \cup created[r]) = 2

\* C9: a file of Generated/ is never removed and its bytes never change (the
\* two reference sets are constants of the model: no action writes them).
C9_ArtifactsImmutable ==
    [][\A f \in DOMAIN generated :
          f \in DOMAIN generated' /\ generated'[f] = generated[f]]_vars

\* a file that two requests wrote, holding the bytes of one of them
C9_Witness ==
    \E q \in Requests, r \in Requests :
       /\ q # r
       /\ \E f \in created[q] \cap created[r] :
             /\ f \in DOMAIN generated
             /\ generated[f] = ImageBytes(r, DispatchTo(req[r].model))
       /\ IsFresh(q) /\ IsFresh(r)

\* the response of a promotion from one of the two reference sets
IsPromotion(r) ==
    /\ pc[r] = "done"
    /\ response[r].status = 200
    /\ "source" \in DOMAIN response[r]
    /\ response[r].source \in { "reference", "secondary_reference" }

\* C10: every reference-set hit is answered with the name of a file of
\* Generated/ that is not a name of a reference file, and two promotions,
\* concurrent ones included, are answered with different names.
C10_PromotedNamesDistinct ==
    /\ \A r \in Requests :
          IsPromotion(r) =>
             /\ response[r].filename \in DOMAIN generated
             /\ response[r].filename \notin
                  (ReferenceFiles \cup SecondaryReferenceFiles)
    /\ \A q \in Requests, r \in Requests :
          (q # r /\ IsPromotion(q) /\ IsPromotion(r))
          => response[q].filename # response[r].filename

\* two promotions answered with the same file name
C10_Witness ==
    \E q \in Requests, r \in Requests :
       /\ q # r
       /\ IsPromotion(q) /\ IsPromotion(r)
       /\ response[q].filename = response[r].filename
       /\ created[q] = created[r]

\* the secondary reference set holds an artifact whose clean name is the
\* concept's
HasSecondaryReference(prompt) ==
    \E f \in SecondaryReferenceFiles : CleanName(BaseNoExt(f)) = searchTerm(prompt)

\* a request answered before r came left a generated file that the
\* single-backend lookup matches for r's concept
GeneratedBeforeArrival(r) ==
    \E q \in doneBefore[r] :
       \E f \in created[q] :
          /\ f \in DOMAIN generated
          /\ LookupName(f) = normalizedPrompt(req[r].prompt)

\* C11: the single-backend lookup consults the generated set, then the
\* reference set, then the secondary reference set, and the first hit wins:
\* a request that finds a matching generated file when it arrives promotes
\* nothing and writes nothing, and a concept that both reference sets hold is
\* never promoted from the secondary one.
C11_LookupOrder ==
    \A r \in Requests :
       Single(r) =>
          /\ hit[r] = "secondary_reference"
               => ~HasPrimaryReference(req[r].prompt)
          /\ (IsPromotion(r) /\ response[r].source = "secondary_reference")
               => ~HasPrimaryReference(req[r].prompt)
          /\ GeneratedBeforeArrival(r) =>
               /\ hit[r] \in { "none", "generated" }
               /\ promo[r] = NoPromo
               /\ created[r] = {}
               /\ NoBackendCall(r)
               /\ pc[r] \in { "checkGenerated", "done" }

\* a concept of both reference sets promoted from the primary one, and then
\* a second request for it served from the generated set without a promotion
C11_Witness ==
    \E q \in Requests, r \in Requests :
       /\ Single(q) /\ IsPromotion(q)
       /\ HasPrimaryReference(req[q].prompt)
       /\ HasSecondaryReference(req[q].prompt)
       /\ response[q].source = "reference"
       /\ generated[response[q].filename].dir = ReferenceDir
       /\ Single(r) /\ GeneratedBeforeArrival(r)
       /\ pc[r] = "done" /\ hit[r] = "generated"
       /\ response[r].filename \in created[q]
       /\ created[r] = {}

\* C12: in a "both" request, a backend without a tagged generated file whose
\* concept has an exact match in the primary or the secondary reference set
\* is resolved by promoting the reference file at cost 0, without a call of
\* the backend.
C12_FanOutPromotesReferences ==
    \A r \in Requests, b \in Backends :
       ( /\ FanOut(r)
         /\ \/ HasPrimaryReference(req[r].prompt)
            \/ HasSecondaryReference(req[r].prompt)
         /\ pc[r] # "fanCheck"
         /\ branch[r][b].pc # "cached" )
       => /\ calls[r][b].generation = 0
          /\ (pc[r] = "done" /\ response[r].status = 200) =>
               /\ response[r].results[b].success
               /\ IsCached(response[r].results[b])
               /\ response[r].results[b].cost = 0

\* a "both" request for a concept of the reference set, answered with a paid
\* fresh result of a backend that was called
C12_Witness ==
    \E r \in Requests, b \in Backends :
       /\ FanOut(r) /\ pc[r] = "done"
       /\ HasPrimaryReference(req[r].prompt)
       /\ response[r].status = 200
       /\ response[r].results[b].success
       /\ ~IsCached(response[r].results[b])
       /\ response[r].results[b].cost > 0
       /\ calls[r][b].generation = 1
       /\ \A f \in created[r] : generated[f].dir \in Backends

\* C13: a request without concept text is answered 400 at once: it makes no
\* lookup, no promotion and no backend call, reports no cost and writes no
\* file.
C13_EmptyPromptRejected ==
    \A r \in Requests :
       (pc[r] # "idle" /\ req[r].prompt = EmptyPrompt)
       => /\ pc[r] = "done"
          /\ response[r].status = 400
          /\ DOMAIN response[r] = { "status" }
          /\ hit[r] = "none"
          /\ promo[r] = NoPromo
          /\ NoBackendCall(r)
          /\ \A b \in Backends : branch[r][b] = NoBranch
          /\ created[r] = {}
          /\ fault[r] = {}

\* a request without concept text has been refused while Generated/ is as it
\* was at start
C13_Witness ==
    \E r \in Requests :
       /\ pc[r] = "done"
       /\ req[r].prompt = EmptyPrompt
       /\ response[r].status = 400
       /\ generated = << >>

\* a step in which the generation call of a single-backend request returns
\* without an image: the request is answered 500 and nothing is written
NoImageFailsRequest ==
    \A r \in Requests, b \in Backends :
       ( /\ Single(r)
         /\ branch[r][b].pc = "generate"
         /\ branch'[r][b].pc = "settled" )
       => /\ pc'[r] = "done"
          /\ response'[r].status = 500
          /\ "filename" \notin DOMAIN response'[r]
          /\ generated' = generated
          /\ created'[r] = {}
          /\ ~branch'[r][b].result.success

\* C15: when the generation backend of a single-backend request returns no
\* image, the request is answered with an error (status 500) and not with a
\* success, and no file is written to Generated/ for it.
C15_NoImageIsAnError == [][NoImageFailsRequest]_vars

\* a single-backend request whose one generation call failed, answered 500
\* with nothing written
C15_Witness ==
    \E r \in Requests :
       /\ Single(r) /\ pc[r] = "done"
       /\ response[r].status = 500
       /\ hit[r] = "miss"
       /\ calls[r][DispatchTo(req[r].model)].generation = 1
       /\ branch[r][DispatchTo(req[r].model)].pc = "settled"
       /\ ~branch[r][DispatchTo(req[r].model)].result.success
       /\ created[r] = {}

\* the robots of the directories whose listing succeeded in the matcher run
ReadableRobots ==
    (IF matchRun.genOk THEN GeneratedRobots(matchRun.gen) ELSE {})
    \cup (IF matchRun.refOk
          THEN ReferenceRobots(matchRun.ref, ReferenceDir, "reference")
          ELSE {})
    \cup (IF matchRun.secOk
          THEN ReferenceRobots(matchRun.sec, SecondaryReferenceDir,
                               "secondary_reference")
          ELSE {})

\* the readable robots whose clean name is the clean form of `text`
RobotsNamed(text) ==
    { rb \in ReadableRobots : CleanName(rb.name) = CleanName(text) }

\* the matcher run is over / is over and listed Generated/ and the reference
\* set (the two listings findRelatedRobots cannot do without)
Matched == matchRun.stage = "matched"

MatchedListed == Matched /\ matchRun.genOk /\ matchRun.refOk

\* C16: when a directory cannot be listed during matching only that
\* directory counts as empty: a robot of a readable directory whose clean
\* name is the concept's is still returned by findRelatedRobots.
C16_UnreadableCollectionIsEmpty ==
    (Matched /\ RobotsNamed(matchRun.prompt) # {})
    => /\ Len(matchRun.relatedRobots) = 1
       /\ matchRun.relatedRobots[1] \in RobotsNamed(matchRun.prompt)

\* Generated/ cannot be listed, the reference set can and holds the concept,
\* and the matcher has returned nothing
C16_Witness ==
    /\ Matched
    /\ ~matchRun.genOk /\ matchRun.refOk
    /\ \E rb \in RobotsNamed(matchRun.prompt) : rb.source = "reference"
    /\ matchRun.relatedRobots = << >>

\* C17: when the matcher has listed its directories and some robot's clean
\* name is the concept's clean form, the result is one robot, that exact
\* match, and no robot matched by a word of the concept; and a result that
\* holds an exact match holds nothing else.
C17_ExactTierAlone ==
    MatchedListed =>
       /\ RobotsNamed(matchRun.prompt) # {} =>
            /\ Len(matchRun.relatedRobots) = 1
            /\ matchRun.relatedRobots[1] \in RobotsNamed(matchRun.prompt)
       /\ \A i \in DOMAIN matchRun.relatedRobots :
             matchRun.relatedRobots[i] \in RobotsNamed(matchRun.prompt)
               => Len(matchRun.relatedRobots) = 1

\* an exact match returned alone although each word of the concept names
\* another robot
C17_Witness ==
    /\ MatchedListed
    /\ Len(promptWords(matchRun.prompt)) = 2
    /\ \A i \in DOMAIN promptWords(matchRun.prompt) :
          RobotsNamed(promptWords(matchRun.prompt)[i])
            \ RobotsNamed(matchRun.prompt) # {}
    /\ Len(matchRun.relatedRobots) = 1
    /\ matchRun.relatedRobots[1] \in RobotsNamed(matchRun.prompt)

\* the positions of the words of the concept that are at least two
\* characters long when cleaned and are the clean name of a readable robot
MatchingWords ==
    { i \in DOMAIN promptWords(matchRun.prompt) :
        /\ Len(CleanName(promptWords(matchRun.prompt)[i])) >= 2
        /\ RobotsNamed(promptWords(matchRun.prompt)[i]) # {} }

\* C18: when no robot's clean name is the whole concept's clean form and
\* exactly one word of the concept (two characters or more when cleaned) is a
\* robot's clean name, the matcher returns exactly one robot, of that name.
C18_WordTierSingleMatch ==
    ( /\ MatchedListed
      /\ RobotsNamed(matchRun.prompt) = {}
      /\ Cardinality(MatchingWords) = 1 )
    => /\ Len(matchRun.relatedRobots) = 1
       /\ \A i \in MatchingWords :
             matchRun.relatedRobots[1]
               \in RobotsNamed(promptWords(matchRun.prompt)[i])

\* 'Python Optimizer' with a python robot and no robot for the whole concept
\* or for 'optimizer': the result is the python robot alone
C18_Witness ==
    /\ MatchedListed
    /\ Len(promptWords(matchRun.prompt)) = 2
    /\ Len(matchRun.prompt) = 16
    /\ RobotsNamed(matchRun.prompt) = {}
    /\ Cardinality(MatchingWords) = 1
    /\ Len(matchRun.relatedRobots) = 1
    /\ matchRun.relatedRobots[1].name = <<"p","y","t","h","o","n">>

\* the kinds of the paragraphs of the composed prompt
PromptKinds == { promptRun.finalPrompt[i].kind : i \in DOMAIN promptRun.finalPrompt }

\* the paragraph of the composed prompt that carries `text` under `kind`
Carries(kind, text) ==
    \E i \in DOMAIN promptRun.finalPrompt :
       /\ promptRun.finalPrompt[i].kind = kind
       /\ promptRun.finalPrompt[i].text = text

\* C14: a failed style analysis leaves the default style description and a
\* failed research leaves the stub 'Creating a robot for <concept>'; neither
\* ends the call: the only exception that leaves generateWith... is that of
\* an image call without image, and the prompt is composed with the two
\* texts, fallback or not.
C14_AnalysisAndResearchRecover ==
    promptRun.stage # "none" =>
       /\ "analysis" \in promptRun.failed => promptRun.styleGuide = DefaultStyle
       /\ "research" \in promptRun.failed
            => promptRun.research = ResearchStub(promptRun.prompt)
       /\ promptRun.stage = "threw" =>
            /\ "image" \in promptRun.failed
            /\ promptRun.finalPrompt # << >>
       /\ promptRun.finalPrompt # << >> =>
            /\ promptRun.styleGuide # NoText
            /\ promptRun.research # NoText
            /\ Carries("style", promptRun.styleGuide)
            /\ Carries("customization", promptRun.research)

\* the analysis and the research both failed, the prompt was composed with
\* the two fallback texts and the image call returned an image
C14_Witness ==
    /\ promptRun.stage = "returned"
    /\ promptRun.failed = { "analysis", "research" }
    /\ promptRun.image
    /\ Carries("style", DefaultStyle)
    /\ Carries("customization", ResearchStub(promptRun.prompt))

\* C19: the composed prompt holds the uniqueness paragraphs and no
\* core-identity paragraph exactly when no robot is related; with related
\* robots it holds the core-identity paragraphs, naming each related robot
\* in order, and no uniqueness paragraph.
C19_DirectiveFollowsMatch ==
    promptRun.finalPrompt # << >> =>
       IF Len(promptRun.relatedRobots) = 0
       THEN /\ "uniqueness" \in PromptKinds
            /\ "rememberUnique" \in PromptKinds
            /\ "coreIdentity" \notin PromptKinds
            /\ "variantOfBase" \notin PromptKinds
       ELSE /\ "coreIdentity" \in PromptKinds
            /\ "variantOfBase" \in PromptKinds
            /\ "uniqueness" \notin PromptKinds
            /\ "rememberUnique" \notin PromptKinds
            /\ \A i \in DOMAIN promptRun.finalPrompt :
                  promptRun.finalPrompt[i].kind = "coreIdentity" =>
                     /\ Len(promptRun.finalPrompt[i].names)
                          = Len(promptRun.relatedRobots)
                     /\ \A j \in DOMAIN promptRun.relatedRobots :
                           promptRun.finalPrompt[i].names[j]
                             = promptRun.relatedRobots[j].name

\* a prompt composed for two related robots
C19_Witness ==
    /\ promptRun.stage = "composed"
    /\ Len(promptRun.relatedRobots) = 2
    /\ "coreIdentity" \in PromptKinds
    /\ "uniqueness" \notin PromptKinds

\* lower-case letters and digits only
IsCleanForm(s) ==
    \A i \in DOMAIN s : s[i] \in Range(Lowers) \cup Range(DigitChars)

\* lower-case letters, digits and underscores only
IsUnderscoredForm(s) ==
    \A i \in DOMAIN s : s[i] \in Range(Lowers) \cup Range(DigitChars) \cup { "_" }

\* C20: for every text x both normalizations give a result (the clean form
\* holds only lower-case letters and digits, the underscored form has the
\* length of x and holds only lower-case letters, digits and '_'), and
\* applying a normalization to its own result changes nothing.
C20_NormalizationIdempotent ==
    /\ normRun.stage \in { "once", "twice" } =>
          /\ IsCleanForm(normRun.clean)
          /\ Len(normRun.clean) <= Len(normRun.x)
          /\ IsUnderscoredForm(normRun.underscored)
          /\ Len(normRun.underscored) = Len(normRun.x)
    /\ normRun.stage = "twice" =>
          /\ normRun.cleanAgain = normRun.clean
          /\ normRun.underscoredAgain = normRun.underscored

\* a text with an upper-case letter and two characters that are not letters
\* or digits, normalized twice: the clean form lost them, the underscored
\* form holds '_' in their places
C20_Witness ==
    /\ normRun.stage = "twice"
    /\ Len(normRun.x) = 3
    /\ normRun.x[1] = "Z"
    /\ normRun.x[2] = " " /\ normRun.x[3] = "-"
    /\ normRun.cleanAgain = << "z" >>
    /\ normRun.underscoredAgain = << "z", "_", "_" >>

\* C21: in a "both" request the related robots and the reference images are
\* gathered in one step of the handler, before any backend call of the
\* request, and are not gathered again; every generateWith... call of the
\* request is made in that step with that one match result and that one
\* reference list.
GatheredOnce ==
    \A r \in Requests :
       FanOut(r) =>
          /\ ( \/ relatedRobots'[r] # relatedRobots[r]
               \/ referenceImages'[r] # referenceImages[r] )
             => \/ /\ pc[r] = "fanShared"
                   /\ NoBackendCall(r)
                   /\ \A b \in Backends : ~InFlight(r, b)
                \/ pc'[r] = "done"
          /\ \A b \in Backends :
                ( /\ ~InFlight(r, b)
                  /\ branch'[r][b].pc \in { "generate", "save" } )
                => pc[r] = "fanShared"

SharedByBackends ==
    \A r \in Requests, b \in Backends :
       (FanOut(r) /\ branch[r][b].pc = "generate")
       => /\ pc[r] = "fanWait"
          /\ branch[r][b].relatedRobots = relatedRobots[r]
          /\ branch[r][b].referenceImages = referenceImages[r]
          /\ \A c \in Backends :
                branch[r][c].pc = "generate" =>
                   /\ branch[r][c].relatedRobots = branch[r][b].relatedRobots
                   /\ branch[r][c].referenceImages = branch[r][b].referenceImages

C21_SharedReferences == [][GatheredOnce]_vars /\ []SharedByBackends

\* both backends of a "both" request have been called with the same robot
\* of the secondary reference set and its path
C21_Witness ==
    \E r \in Requests :
       /\ FanOut(r) /\ pc[r] = "fanWait"
       /\ \A b \in Backends :
             /\ branch[r][b].pc = "generate"
             /\ Len(branch[r][b].relatedRobots) = 1
             /\ branch[r][b].relatedRobots[1].source = "secondary_reference"
             /\ branch[r][b].referenceImages
                  = << branch[r][b].relatedRobots[1].path >>

\* the steps the frame condition names: a generated-set hit, the refusal of
\* a request without concept text, and a generation call that fails
HitStep(r) ==
    pc[r] = "checkGenerated" /\ pc'[r] = "done" /\ response'[r].status = 200

RefusalStep(r) == pc[r] = "idle" /\ pc'[r] = "done"

FailedGenerationStep(r) ==
    \E b \in Backends :
       branch[r][b].pc = "generate" /\ branch'[r][b].pc = "settled"

\* the step is a successful copy of a reference file by r, or a successful
\* save of an image a backend returned to r
PromotionStep(r) ==
    /\ pc[r] = "promote" /\ pc'[r] = "done"
    /\ response'[r].status = 200
    /\ DOMAIN generated' = DOMAIN generated \cup { response'[r].filename }

SaveStep(r) ==
    \E b \in Backends :
       /\ branch[r][b].pc = "save"
       /\ calls[r][b].generation = 1
       /\ branch'[r][b].pc = "settled"
       /\ branch'[r][b].result.success
       /\ DOMAIN generated' =
            DOMAIN generated \cup { branch'[r][b].result.filename }

FrameOfGenerated ==
    /\ generated' # generated =>
          \E r \in Requests : PromotionStep(r) \/ SaveStep(r)
    /\ \A r \in Requests :
          (HitStep(r) \/ RefusalStep(r) \/ FailedGenerationStep(r))
          => /\ generated' = generated
             /\ created'[r] = created[r]

\* C25: Generated/ changes only in a step that saves the image of a
\* successful generation or copies a matched reference file, and then by that
\* one file; a generated-set hit, the refusal of an empty request and a
\* failed generation call leave it as it is (no action writes the two
\* reference sets).
C25_GeneratedGainsOnlyOnSuccess == [][FrameOfGenerated]_vars

\* a promotion wrote the only file of Generated/, and a later request for
\* the concept was served that file without writing
C25_Witness ==
    \E q \in Requests, r \in Requests :
       /\ IsPromotion(q)
       /\ Single(r) /\ pc[r] = "done" /\ hit[r] = "generated"
       /\ created[r] = {}
       /\ DOMAIN generated = created[q]
       /\ Cardinality(DOMAIN generated) = 1

\* each backend is called at most once per request for the image, and per
\* call at most once for the analysis and for the research; a failure is in
\* the response: status 500, or the backend's error entry
CalledAtMostOnce ==
    \A r \in Requests, b \in Backends :
       /\ calls[r][b].generation <= 1
       /\ calls[r][b].analysis <= 1
       /\ calls[r][b].research <= 1
       /\ (pc[r] = "done" /\ b \in fault[r]) =>
            IF req[r].model = "both"
            THEN "readdir" \notin fault[r] => ~response[r].results[b].success
            ELSE response[r].status = 500

\* a call that has settled is not made again
FailureIsFinal ==
    \A r \in Requests, b \in Backends :
       branch[r][b].pc = "settled"
       => /\ branch'[r][b] = branch[r][b]
          /\ calls'[r][b] = calls[r][b]

\* C30: within a request each generation backend is called at most once; a
\* failed generation is reported once, in the error response or in the
\* backend's error entry, and the call is not made again; the analysis and
\* the research are called at most once per generation call.
C30_NoRetry == []CalledAtMostOnce /\ [][FailureIsFinal]_vars

\* a "both" request answered with an error entry for a backend called once
\* and a fresh entry for the other, called once
C30_Witness ==
    \E r \in Requests, a \in Backends, b \in Backends :
       /\ FanOut(r) /\ pc[r] = "done" /\ a # b
       /\ a \in fault[r]
       /\ calls[r][a].generation = 1
       /\ ~response[r].results[a].success
       /\ calls[r][b].generation = 1
       /\ response[r].results[b].success

\* the two compositions were given the same concept, match result, style
\* text and research text
SameInputs(a, b) ==
    /\ a.prompt = b.prompt
    /\ a.relatedRobots = b.relatedRobots
    /\ a.styleGuide = b.styleGuide
    /\ a.research = b.research

\* the paragraphs that depend neither on the match result nor on the style
\* and research texts
FixedParagraphs(text) ==
    LET Fixed(paragraph) ==
          paragraph.kind \notin { "coreIdentity", "uniqueness", "style",
                                  "customization", "rememberUnique",
                                  "variantOfBase" }
    IN  SelectSeq(text, Fixed)

C23_NameRoundTrip ==
    nameRun.stage = "read" =>
       LET stem == normalizedPrompt(nameRun.concept) \o nameRun.tag
       IN  /\ nameRun.lookupName = stem
           /\ nameRun.robotName = stem
           /\ nameRun.galleryStem = stem
           /\ nameRun.galleryName =
                [i \in DOMAIN stem |-> IF stem[i] = "_" THEN " " ELSE stem[i]]

\* the name of an untagged file whose concept ends in an underscore and
\* thirteen digits has been read back
C23_Witness ==
    /\ nameRun.stage = "read"
    /\ nameRun.concept = <<"x"," ">> \o DateNowString(0)
    /\ nameRun.tag = << >>
    /\ nameRun.robotName = <<"x","_">> \o DateNowString(0)

\* the position at which a file was saved: its creation order
SavedAt(filename) ==
    CHOOSE i \in DOMAIN galleryRun.saved : galleryRun.saved[i] = filename

\* the characters of the saved names in code-unit order
CharRank(c) ==
    LET order == <<".">> \o DigitChars \o <<"_">> \o Lowers
    IN  CHOOSE i \in DOMAIN order : order[i] = c

\* a sorts before b as strcmp compares them
NameLess(a, b) ==
    \E k \in 1..(Min(Len(a), Len(b)) + 1) :
       /\ \A i \in 1..(k - 1) : a[i] = b[i]
       /\ IF k > Len(a) THEN k <= Len(b)
          ELSE k <= Len(b) /\ CharRank(a[k]) < CharRank(b[k])

\* the directory was read in alphabetical order
Alphabetical(files) ==
    \A i, j \in DOMAIN files : i < j => NameLess(files[i], files[j])

\* C24: the gallery lists the saved images in decreasing order of creation
\* time, each with the file name less its timestamp and extension, with
\* spaces for underscores, as display name.
C24_GalleryNewestFirst ==
    galleryRun.stage = "listed" =>
       /\ Len(galleryRun.images) = Len(galleryRun.saved)
       /\ \A i, j \in DOMAIN galleryRun.images :
             i < j => SavedAt(galleryRun.images[i].filename)
                      > SavedAt(galleryRun.images[j].filename)
       /\ \A i \in DOMAIN galleryRun.images :
             LET stem == LookupName(galleryRun.images[i].filename)
             IN  galleryRun.images[i].name =
                   [k \in DOMAIN stem |-> IF stem[k] = "_" THEN " " ELSE stem[k]]

\* the directory was read in alphabetical order and the gallery shows the
\* older image of Zig before the newer image of Go
C24_Witness ==
    /\ galleryRun.stage = "listed"
    /\ Alphabetical(galleryRun.files)
    /\ Len(galleryRun.images) = 2
    /\ galleryRun.images[1].filename = TimestampedName(<<"z","i","g">>, 0)
    /\ galleryRun.images[2].filename = TimestampedName(<<"g","o">>, 1)
    /\ SavedAt(galleryRun.images[1].filename) < SavedAt(galleryRun.images[2].filename)

\* the matcher run has gone on to the reference selection
Selected == matchRun.stage = "selected"

\* the cleaned words of the concept that the word tier can match: two
\* characters or more, the clean name of a listed robot, first occurrences
\* only, in the order of the concept
RECURSIVE DistinctMatchedTokens(_, _)
DistinctMatchedTokens(words, seen) ==
    IF words = << >>
    THEN << >>
    ELSE LET token == CleanName(Head(words))
         IN  IF Len(token) >= 2 /\ token \notin seen /\ RobotsNamed(token) # {}
             THEN << token >> \o DistinctMatchedTokens(Tail(words),
                                                        seen \cup { token })
             ELSE DistinctMatchedTokens(Tail(words), seen)

\* C26: when the directories were listed and no robot's clean name is the
\* whole concept, the matcher returns one robot for each distinct cleaned
\* word of the concept that names a robot, in the order of the words, a
\* repeated word counting once; no robot is returned for a word of fewer
\* than two characters, whatever robots exist.
C26_WordTierPerToken ==
    (MatchedListed /\ RobotsNamed(matchRun.prompt) = {}) =>
       LET tokens == DistinctMatchedTokens(promptWords(matchRun.prompt), {})
       IN  /\ Len(matchRun.relatedRobots) = Len(tokens)
           /\ \A i \in DOMAIN tokens :
                 /\ matchRun.relatedRobots[i] \in ReadableRobots
                 /\ CleanName(matchRun.relatedRobots[i].name) = tokens[i]
           /\ \A i \in DOMAIN matchRun.relatedRobots :
                 Len(CleanName(matchRun.relatedRobots[i].name)) >= 2

\* the concept "Zig C Go Zig" with robots named zig, c and go listed: the
\* result is a robot zig, then a robot go
C26_Witness ==
    /\ MatchedListed
    /\ matchRun.prompt = <<"Z","i","g"," ","C"," ","G","o"," ","Z","i","g">>
    /\ RobotsNamed(<<"c">>) # {}
    /\ Len(matchRun.relatedRobots) = 2
    /\ CleanName(matchRun.relatedRobots[1].name) = <<"z","i","g">>
    /\ CleanName(matchRun.relatedRobots[2].name) = <<"g","o">>

\* the paths of the match result, in its order
MatchedPaths ==
    [i \in DOMAIN matchRun.relatedRobots |-> matchRun.relatedRobots[i].path]

\* C27: when the match result is not empty the reference list is the paths
\* of the matched robots in match order and nothing else; a path that is not
\* a matched robot's is in the list only when the match result is empty.
C27_MatchedReferencesOnly ==
    Selected =>
       /\ Len(matchRun.relatedRobots) > 0 => matchRun.referenceImages = MatchedPaths
       /\ Range(matchRun.referenceImages) \ Range(MatchedPaths) # {}
            => matchRun.relatedRobots = << >>

\* two robots matched, a third image in Reference Images/ that could have
\* been added, and the reference list is the two matched paths
C27_Witness ==
    /\ Selected
    /\ Len(matchRun.relatedRobots) = 2
    /\ matchRun.refOk
    /\ <<"p","y","t","h","o","n",".","p","n","g">> \in matchRun.ref
    /\ matchRun.referenceImages = MatchedPaths
    /\ <<ReferenceDir, <<"p","y","t","h","o","n",".","p","n","g">> >>
         \notin Range(matchRun.referenceImages)

\* the artifacts of the three collections as the run holds them, by path
LibraryPaths ==
    { rb.path : rb \in GeneratedRobots(matchRun.gen)
                       \cup ReferenceRobots(matchRun.ref, ReferenceDir, "reference")
                       \cup ReferenceRobots(matchRun.sec, SecondaryReferenceDir,
                                            "secondary_reference") }

\* every listing of the run succeeded
LibraryReadable ==
    matchRun.genOk /\ matchRun.refOk /\ matchRun.secOk /\ matchRun.loadOk

\* C28: when the match result is empty the reference list has
\* min(10, library size) entries, no entry twice, every artifact of the three
\* collections eligible, and it is empty only when the library is empty or
\* cannot be read.
C28_SampleOfFullLibrary ==
    (Selected /\ matchRun.relatedRobots = << >> /\ LibraryReadable) =>
       /\ Len(matchRun.referenceImages)
            = Min(ReferenceLimit, Cardinality(LibraryPaths))
       /\ \A i, j \in DOMAIN matchRun.referenceImages :
             matchRun.referenceImages[i] = matchRun.referenceImages[j] => i = j
       /\ matchRun.referenceImages = << >> => LibraryPaths = {}

\* nothing matched, every directory was listed, Generated/ and the secondary
\* set hold images, Reference Images/ holds none: the reference list is empty
C28_Witness ==
    /\ Selected /\ LibraryReadable
    /\ matchRun.relatedRobots = << >>
    /\ matchRun.ref = {}
    /\ matchRun.gen # {} /\ matchRun.sec # {}
    /\ matchRun.referenceImages = << >>

\* C29: a call with extensiveThinking false makes no analysis call and no
\* research call: the style guide is the default description, the research
\* is 'Creating a robot for <concept>', the prompt is composed with these
\* two, and the one backend call of the run is the image call.
C29_FastModeCallsImageOnly ==
    (promptRun.stage # "none" /\ ~promptRun.extensiveThinking) =>
       /\ promptRun.styleGuide \in { NoText, DefaultStyle }
       /\ promptRun.research \in { NoText, ResearchStub(promptRun.prompt) }
       /\ promptRun.failed \subseteq { "image" }
       /\ promptRun.calls =
            IF promptRun.stage \in { "returned", "threw" } THEN 1 ELSE 0
       /\ promptRun.finalPrompt # << >> =>
            /\ Carries("style", DefaultStyle)
            /\ Carries("customization", ResearchStub(promptRun.prompt))

\* a fast-mode call with readable reference images returned an image after
\* one backend call
C29_Witness ==
    /\ promptRun.stage = "returned"
    /\ ~promptRun.extensiveThinking
    /\ promptRun.readable # {}
    /\ promptRun.calls = 1
    /\ promptRun.image
    /\ promptRun.styleGuide = DefaultStyle
    /\ promptRun.research = ResearchStub(promptRun.prompt)

\* q generated and saved the concept with one backend and had answered
\* before r came, for the same concept and the other backend
GeneratedByOtherBackend(q, r) ==
    /\ q \in doneBefore[r]
    /\ Single(q) /\ Single(r)
    /\ req[q].prompt = req[r].prompt
    /\ DispatchTo(req[q].model) # DispatchTo(req[r].model)
    /\ IsFresh(q)
    /\ created[q] # {}

\* C34: after a single-backend request has generated and saved a concept
\* with one backend, a later single-backend request for the concept that
\* selects the other backend is, once it has listed Generated/, answered
\* with the file the first request saved, flagged cached, without any
\* backend call and without writing a file.
C34_LookupIgnoresBackend ==
    \A q \in Requests, r \in Requests :
       ( /\ GeneratedByOtherBackend(q, r)
         /\ pc[r] # "checkGenerated"
         /\ "readdir" \notin fault[r] )
       => /\ pc[r] = "done"
          /\ response[r].status = 200
          /\ IsCached(response[r])
          /\ response[r].filename \in created[q]
          /\ NoBackendCall(r)
          /\ created[r] = {}

\* the concept was generated with Google, then asked for with OpenAI and
\* answered with the file Google's image was saved in
C34_Witness ==
    \E q \in Requests, r \in Requests :
       /\ GeneratedByOtherBackend(q, r)
       /\ DispatchTo(req[q].model) = "google"
       /\ calls[q]["google"].generation = 1
       /\ pc[r] = "done"
       /\ hit[r] = "generated"
       /\ response[r].filename \in created[q]
       /\ NoBackendCall(r)

\* C35: for one concept, a single-backend request answered from Generated/
\* is never answered with a file a "both" request wrote, and no cached entry
\* of a "both" response names a file a single-backend request wrote
\* (generated or promoted).
C35_CachesDisjoint ==
    \A q \in Requests, r \in Requests :
       (q # r /\ pc[r] = "done" /\ req[q].prompt = req[r].prompt) =>
          /\ (Single(r) /\ FanOut(q) /\ hit[r] = "generated")
               => response[r].filename \notin created[q]
          /\ (FanOut(r) /\ Single(q) /\ "results" \in DOMAIN response[r])
               => \A b \in Backends :
                    IsCached(response[r].results[b])
                      => response[r].results[b].filename \notin created[q]

\* a "both" request saved two files for the concept, and a single-backend
\* request that came after it for the same concept found none of them and
\* wrote a file of its own
C35_Witness ==
    \E q \in Requests, r \in Requests :
       /\ FanOut(q) /\ q \in doneBefore[r]
       /\ Cardinality(created[q]) = 2
       /\ Single(r) /\ pc[r] = "done"
       /\ req[q].prompt = req[r].prompt
       /\ response[r].status = 200
       /\ hit[r] # "generated"
       /\ created[r] # {}

\* q was answered with a promoted reference file before r came for the
\* same concept with one backend
PromotedBefore(q, r) ==
    /\ q \in doneBefore[r]
    /\ IsPromotion(q)
    /\ Single(r)
    /\ req[q].prompt = req[r].prompt

\* C37: after a reference file was promoted for a concept, a later
\* single-backend request for the concept is, once it has listed Generated/,
\* answered from the generated set with the promoted file; it promotes
\* nothing, writes nothing and calls no backend.
C37_PromotedOnce ==
    \A q \in Requests, r \in Requests :
       ( /\ PromotedBefore(q, r)
         /\ pc[r] # "checkGenerated"
         /\ "readdir" \notin fault[r] )
       => /\ pc[r] = "done"
          /\ hit[r] = "generated"
          /\ IsCached(response[r])
          /\ response[r].filename = response[q].filename
          /\ created[r] = {}
          /\ NoBackendCall(r)

\* a secondary reference file was promoted, and the next request for the
\* concept was answered with the promoted copy
C37_Witness ==
    \E q \in Requests, r \in Requests :
       /\ PromotedBefore(q, r)
       /\ response[q].source = "secondary_reference"
       /\ pc[r] = "done"
       /\ hit[r] = "generated"
       /\ response[r].filename \in created[q]
       /\ Cardinality(DOMAIN generated) = 1

\* C38: a request whose promotion failed (reading the reference file or
\* writing the copy) has been answered with status 500 and has made no
\* backend call, whichever reference set the file was found in.
C38_FailedPromotionIsAnError ==
    \A r \in Requests :
       "promote" \in fault[r]
       => /\ pc[r] = "done"
          /\ response[r].status = 500
          /\ NoBackendCall(r)

\* the promotion of a secondary reference file failed and the request was
\* answered with a freshly generated image
C38_Witness ==
    \E r \in Requests :
       /\ "promote" \in fault[r]
       /\ hit[r] = "secondary_reference"
       /\ IsFresh(r)
       /\ \E b \in Backends : calls[r][b].generation = 1
       /\ created[r] # {}

C32_ThinkingTimeCoversAnalysis ==
    timingRun.stage = "responded" =>
       IF timingRun.extensiveThinking
       THEN /\ timingRun.timings.thinkingTime
                 = timingRun.matchingSpent + timingRun.thinkingSpent
            /\ timingRun.timings.generationTime
                 = timingRun.imageSpent + timingRun.saveSpent
       ELSE timingRun.timings.thinkingTime = 0

\* analysis and research took two milliseconds, everything else none: the
\* response reports thinkingTime 0 and generationTime 2
C32_Witness ==
    /\ timingRun.stage = "responded"
    /\ timingRun.extensiveThinking
    /\ timingRun.thinkingSpent = 2
    /\ timingRun.matchingSpent = 0
    /\ timingRun.imageSpent = 0 /\ timingRun.saveSpent = 0
    /\ timingRun.timings.thinkingTime = 0
    /\ timingRun.timings.generationTime = 2

\* the files of Generated/ the single-backend lookup would answer the
\* concept of the matcher run with
LookupHits == existingGenerated(matchRun.gen, matchRun.prompt)

AnsweredOnce ==
    \A r \in Requests :
       pc[r] = "done" => (pc'[r] = "done" /\ response'[r] = response[r])

\* C33: whatever becomes of the other request, a backend call of it that
\* never returns included, the request whose own file operations and backend
\* calls return is answered once received; no response is sent before, and a
\* response once sent is never followed by another.
C33_HungCallStallsOnlyItsRequest ==
    /\ (pc[Responsive] # "idle") ~> (pc[Responsive] = "done")
    /\ [](\A r \in Requests : pc[r] # "done" => response[r] = NoResponse)
    /\ [][AnsweredOnce]_vars

\* the first request is still waiting for its backend and the request that
\* came after it has been answered with an image generated for it
C33_Witness ==
    \E q \in Requests :
       /\ q # Responsive
       /\ Single(q) /\ pc[q] = "generating"
       /\ branch[q][DispatchTo(req[q].model)].pc = "generate"
       /\ IsFresh(Responsive)
       /\ created[Responsive] # {}

====
